---- MODULE Spec2Model ----
(***************************************************************************)
(* Model of the generation-aware data layer of poclidex:                   *)
(*   - LRUCache                       (utils/cache.ts)                     *)
(*   - POKEMON_ABILITY_CHANGES        (constants/abilityChanges.ts)        *)
(*   - GenerationService              (services/generationService.ts)      *)
(*   - PokemonRepository.getMoves     (repositories/PokemonRepository.ts)  *)
(* Each component has its own specification over the shared variables.     *)
(***************************************************************************)
EXTENDS Integers, Sequences, FiniteSets, TLC

VARIABLES cache, maxSize, touchLog, lastCache,
          sessionGeneration, lastGen,
          abilityIn, lastAbility,
          movesIn, moveCache, lastMoves,
          transformIn, lastTransform,
          currentLoadId, currentPokemon, header, sections, containerVisible, loadingBox, calls,
          versionIn, lastVersion,
          abilityCache, abilityCalls, lastAbilityDetails,
          moveCalls,
          generationIn, lastGeneration,
          listIn, lastList,
          keyPresses,
          pokemonCache, detailCalls,
          spriteCache, renderParams, spriteCalls, cycles,
          screenBoxes, loadingRef,
          onStatusUpdate, phaseCalls

vars == <<cache, maxSize, touchLog, lastCache,
          sessionGeneration, lastGen, abilityIn, lastAbility,
          movesIn, moveCache, lastMoves,
          transformIn, lastTransform,
          currentLoadId, currentPokemon, header, sections, containerVisible, loadingBox, calls,
          versionIn, lastVersion,
          abilityCache, abilityCalls, lastAbilityDetails,
          moveCalls,
          generationIn, lastGeneration,
          listIn, lastList,
          keyPresses,
          pokemonCache, detailCalls,
          spriteCache, renderParams, spriteCalls, cycles,
          screenBoxes, loadingRef,
          onStatusUpdate, phaseCalls>>

cacheVars   == <<cache, maxSize, touchLog, lastCache>>
genVars     == <<sessionGeneration, lastGen>>
abilityVars == <<abilityIn, lastAbility>>
movesVars   == <<movesIn, moveCache, lastMoves>>
transformVars == <<transformIn, lastTransform>>
detailVars == <<currentLoadId, currentPokemon, header, sections, containerVisible, loadingBox, calls>>
versionVars == <<versionIn, lastVersion>>
abilityDetailVars == <<abilityCache, abilityCalls, lastAbilityDetails>>
moveCallVars == <<moveCalls>>
generationVars == <<generationIn, lastGeneration>>
listVars == <<listIn, lastList>>
keyVars == <<keyPresses>>
entityVars == <<pokemonCache, detailCalls>>
spriteVars == <<spriteCache, renderParams, spriteCalls, cycles>>
boxVars == <<screenBoxes, loadingRef>>
phaseVars == <<onStatusUpdate, phaseCalls>>

(***************************************************************************)
(* Bounds                                                                  *)
(***************************************************************************)
MaxCap == 3

\* one key more than the largest capacity, so that a full cache can overflow
Keys   == 1 .. (MaxCap + 1)
Values == {"v1", "v2"}

\* JavaScript's undefined, returned by Map.get / LRUCache.get on a miss
Undefined == "undefined"

(***************************************************************************)
(* JavaScript Map, kept as the sequence of its entries in insertion order  *)
(***************************************************************************)
MapKeys(m) == {m[i].key : i \in 1 .. Len(m)}

MapHas(m, k) == k \in MapKeys(m)

MapIndex(m, k) == CHOOSE i \in 1 .. Len(m) : m[i].key = k

MapGet(m, k) == IF MapHas(m, k) THEN m[MapIndex(m, k)].value ELSE Undefined

MapDelete(m, k) == SelectSeq(m, LAMBDA e : e.key # k)

\* Map.set keeps the position of a key that is present, appends a new key
MapSet(m, k, v) ==
    IF MapHas(m, k)
    THEN [i \in 1 .. Len(m) |-> IF m[i].key = k THEN [key |-> k, value |-> v] ELSE m[i]]
    ELSE Append(m, [key |-> k, value |-> v])

\* cache.keys().next().value
MapFirstKey(m) == m[1].key

(***************************************************************************)
(* LRUCache                                                                *)
(***************************************************************************)
\* mutant of LRUCacheGet: the hit is not moved to the end
LRUCacheGetNoPromote(m, k) == m

\* the Map after get(key)
LRUCacheGet(m, k) ==
    IF ~MapHas(m, k)
    THEN m
    ELSE LET value == MapGet(m, k)
         IN  MapSet(MapDelete(m, k), k, value)

\* mutant of LRUCacheGetResult: a miss returns null
LRUCacheGetResultNull(m, k) == IF ~MapHas(m, k) THEN "null" ELSE MapGet(m, k)

\* the value get(key) returns
LRUCacheGetResult(m, k) == IF ~MapHas(m, k) THEN Undefined ELSE MapGet(m, k)

\* mutant of LRUCacheSet: the size check is missing
LRUCacheSetNoEvict(m, k, v, n) ==
    MapSet(IF MapHas(m, k) THEN MapDelete(m, k) ELSE m, k, v)

\* mutant of LRUCacheSet: a present key is updated in place
LRUCacheSetInPlace(m, k, v, n) ==
    LET m2 == MapSet(m, k, v)
    IN  IF Len(m2) > n THEN MapDelete(m2, MapFirstKey(m2)) ELSE m2

\* the Map after set(key, value) on a cache of capacity n
LRUCacheSet(m, k, v, n) ==
    LET m1 == IF MapHas(m, k) THEN MapDelete(m, k) ELSE m
        m2 == MapSet(m1, k, v)
    IN  IF Len(m2) > n
        THEN MapDelete(m2, MapFirstKey(m2))
        ELSE m2

\* what has(key) returns
LRUCacheHas(m, k) == MapHas(m, k)

\* mutant of LRUCacheHasAfter: the key asked for is moved to the end
LRUCacheHasAfterPromotes(m, k) == LRUCacheGet(m, k)

\* the Map after has(key): Map.has only reads
LRUCacheHasAfter(m, k) == m

\* what the size getter returns; it only reads
LRUCacheSize(m) == Len(m)

\* history of touches: the keys in the order of their most recent touch
\* (a set, or a get that hits), oldest first
Touch(log, k) == Append(SelectSeq(log, LAMBDA x : x # k), k)

NoCacheOp == [op |-> "none", key |-> 0, value |-> Undefined, ret |-> Undefined,
              pre |-> <<>>, preLog |-> <<>>]

CacheGetOp(k) ==
    /\ cache' = LRUCacheGet(cache, k)
    /\ touchLog' = IF MapHas(cache, k) THEN Touch(touchLog, k) ELSE touchLog
    /\ lastCache' = [op |-> "get", key |-> k, value |-> Undefined,
                     ret |-> LRUCacheGetResult(cache, k),
                     pre |-> cache, preLog |-> touchLog]
    /\ UNCHANGED <<maxSize, genVars, abilityVars, movesVars, transformVars, detailVars, versionVars, abilityDetailVars, moveCallVars, generationVars, listVars, keyVars, entityVars, spriteVars, boxVars, phaseVars>>

CacheSetOp(k, v) ==
    /\ cache' = LRUCacheSet(cache, k, v, maxSize)
    /\ touchLog' = Touch(touchLog, k)
    /\ lastCache' = [op |-> "set", key |-> k, value |-> v, ret |-> Undefined,
                     pre |-> cache, preLog |-> touchLog]
    /\ UNCHANGED <<maxSize, genVars, abilityVars, movesVars, transformVars, detailVars, versionVars, abilityDetailVars, moveCallVars, generationVars, listVars, keyVars, entityVars, spriteVars, boxVars, phaseVars>>

CacheHasOp(k) ==
    /\ cache' = LRUCacheHasAfter(cache, k)
    /\ lastCache' = [op |-> "has", key |-> k, value |-> Undefined,
                     ret |-> IF LRUCacheHas(cache, k) THEN "true" ELSE "false",
                     pre |-> cache, preLog |-> touchLog]
    /\ UNCHANGED <<touchLog, maxSize, genVars, abilityVars, movesVars, transformVars, detailVars, versionVars, abilityDetailVars, moveCallVars, generationVars, listVars, keyVars, entityVars, spriteVars, boxVars, phaseVars>>

CacheClearOp ==
    /\ cache' = <<>>
    /\ lastCache' = [op |-> "clear", key |-> 0, value |-> Undefined, ret |-> Undefined,
                     pre |-> cache, preLog |-> touchLog]
    /\ UNCHANGED <<touchLog, maxSize, genVars, abilityVars, movesVars, transformVars, detailVars, versionVars, abilityDetailVars, moveCallVars, generationVars, listVars, keyVars, entityVars, spriteVars, boxVars, phaseVars>>

\* cache.size
CacheSizeOp ==
    /\ lastCache' = [op |-> "size", key |-> 0, value |-> Undefined,
                     ret |-> ToString(LRUCacheSize(cache)),
                     pre |-> cache, preLog |-> touchLog]
    /\ UNCHANGED <<cache, touchLog, maxSize, genVars, abilityVars, movesVars, transformVars, detailVars, versionVars, abilityDetailVars, moveCallVars, generationVars, listVars, keyVars, entityVars, spriteVars, boxVars, phaseVars>>

\* values of any type can be cached: null, undefined, 0 and '' among them
CacheableValues == {"v1", "null", Undefined, "0", ""}
CacheableKeys   == {1, 2}

CacheGetAny == \E k \in CacheableKeys : CacheGetOp(k)
CacheSetAny == \E k \in CacheableKeys, v \in CacheableValues : CacheSetOp(k, v)
CacheHasAny == \E k \in CacheableKeys : CacheHasOp(k)

CacheGet   == \E k \in Keys : CacheGetOp(k)
CacheSet   == \E k \in Keys, v \in Values : CacheSetOp(k, v)
CacheHas   == \E k \in Keys : CacheHasOp(k)
CacheClear == CacheClearOp
CacheSize  == CacheSizeOp

(***************************************************************************)
(* GenerationService                                                       *)
(***************************************************************************)
MinGeneration == 1
MaxGeneration == 9
DefaultGeneration == 9

\* how far outside 1..9 the arguments of setSessionGeneration reach
GenArgSlack == 2

GenArgs == (MinGeneration - GenArgSlack) .. (MaxGeneration + GenArgSlack)
Generations == MinGeneration .. MaxGeneration

MathMax(a, b) == IF a >= b THEN a ELSE b

\* mutant of InvalidGeneration: the lower limit is off by one
InvalidGenerationLoose(generation) == generation < 0 \/ generation > 9

\* the condition under which setSessionGeneration throws
InvalidGeneration(generation) == generation < 1 \/ generation > 9

\* mutant of getEffectiveGeneration: the session value wins
getEffectiveGenerationSessionOnly(session, pokemonGeneration) == session

getEffectiveGeneration(session, pokemonGeneration) ==
    MathMax(session, pokemonGeneration)

getSessionGeneration(session) == session

NoGenOp == [op |-> "none", arg |-> 0, threw |-> FALSE, ret |-> 0, pre |-> DefaultGeneration]

setSessionGeneration(generation) ==
    /\ IF InvalidGeneration(generation)
       THEN /\ lastGen' = [op |-> "set", arg |-> generation, threw |-> TRUE,
                           ret |-> 0, pre |-> sessionGeneration]
            /\ UNCHANGED sessionGeneration
       ELSE /\ sessionGeneration' = generation
            /\ lastGen' = [op |-> "set", arg |-> generation, threw |-> FALSE,
                           ret |-> 0, pre |-> sessionGeneration]
    /\ UNCHANGED <<cacheVars, abilityVars, movesVars, transformVars, detailVars, versionVars, abilityDetailVars, moveCallVars, generationVars, listVars, keyVars, entityVars, spriteVars, boxVars, phaseVars>>

GenSet == \E g \in GenArgs : setSessionGeneration(g)

GenGet ==
    /\ lastGen' = [op |-> "get", arg |-> 0, threw |-> FALSE,
                   ret |-> getSessionGeneration(sessionGeneration),
                   pre |-> sessionGeneration]
    /\ UNCHANGED <<sessionGeneration, cacheVars, abilityVars, movesVars, transformVars, detailVars, versionVars, abilityDetailVars, moveCallVars, generationVars, listVars, keyVars, entityVars, spriteVars, boxVars, phaseVars>>

GenEffective ==
    \E p \in Generations :
        /\ lastGen' = [op |-> "effective", arg |-> p, threw |-> FALSE,
                       ret |-> getEffectiveGeneration(sessionGeneration, p),
                       pre |-> sessionGeneration]
        /\ UNCHANGED <<sessionGeneration, cacheVars, abilityVars, movesVars, transformVars, detailVars, versionVars, abilityDetailVars, moveCallVars, generationVars, listVars, keyVars, entityVars, spriteVars, boxVars, phaseVars>>

(***************************************************************************)
(* Historical ability changes                                              *)
(***************************************************************************)
\* largest number of entries of a current ability list
MaxAbilities == 2

POKEMON_ABILITY_CHANGES == <<
    [pokemonId |-> 550, pokemonName |-> "basculin", oldAbility |-> "reckless", newAbility |-> "rock-head",
     abilitySlot |-> "ability1", changeGeneration |-> 5],
    [pokemonId |-> 145, pokemonName |-> "zapdos", oldAbility |-> "lightningrod", newAbility |-> "static",
     abilitySlot |-> "hidden", changeGeneration |-> 6],
    [pokemonId |-> 543, pokemonName |-> "venipede", oldAbility |-> "quick-feet", newAbility |-> "speed-boost",
     abilitySlot |-> "hidden", changeGeneration |-> 6],
    [pokemonId |-> 544, pokemonName |-> "whirlipede", oldAbility |-> "quick-feet", newAbility |-> "speed-boost",
     abilitySlot |-> "hidden", changeGeneration |-> 6],
    [pokemonId |-> 545, pokemonName |-> "scolipede", oldAbility |-> "quick-feet", newAbility |-> "speed-boost",
     abilitySlot |-> "hidden", changeGeneration |-> 6],
    [pokemonId |-> 607, pokemonName |-> "litwick", oldAbility |-> "shadow-tag", newAbility |-> "infiltrator",
     abilitySlot |-> "hidden", changeGeneration |-> 6],
    [pokemonId |-> 608, pokemonName |-> "lampent", oldAbility |-> "shadow-tag", newAbility |-> "infiltrator",
     abilitySlot |-> "hidden", changeGeneration |-> 6],
    [pokemonId |-> 609, pokemonName |-> "chandelure", oldAbility |-> "shadow-tag", newAbility |-> "infiltrator",
     abilitySlot |-> "hidden", changeGeneration |-> 6],
    [pokemonId |-> 94, pokemonName |-> "gengar", oldAbility |-> "levitate", newAbility |-> "cursed-body",
     abilitySlot |-> "ability1", changeGeneration |-> 7],
    [pokemonId |-> 243, pokemonName |-> "raikou", oldAbility |-> "volt-absorb", newAbility |-> "inner-focus",
     abilitySlot |-> "hidden", changeGeneration |-> 7],
    [pokemonId |-> 244, pokemonName |-> "entei", oldAbility |-> "flash-fire", newAbility |-> "inner-focus",
     abilitySlot |-> "hidden", changeGeneration |-> 7],
    [pokemonId |-> 245, pokemonName |-> "suicune", oldAbility |-> "water-absorb", newAbility |-> "inner-focus",
     abilitySlot |-> "hidden", changeGeneration |-> 7],
    [pokemonId |-> 275, pokemonName |-> "shiftry", oldAbility |-> "early-bird", newAbility |-> "wind-rider",
     abilitySlot |-> "hidden", changeGeneration |-> 9],
    [pokemonId |-> 393, pokemonName |-> "piplup", oldAbility |-> "defiant", newAbility |-> "competitive",
     abilitySlot |-> "hidden", changeGeneration |-> 9],
    [pokemonId |-> 394, pokemonName |-> "prinplup", oldAbility |-> "defiant", newAbility |-> "competitive",
     abilitySlot |-> "hidden", changeGeneration |-> 9],
    [pokemonId |-> 395, pokemonName |-> "empoleon", oldAbility |-> "defiant", newAbility |-> "competitive",
     abilitySlot |-> "hidden", changeGeneration |-> 9]
>>

\* mutant of getHistoricalAbilities: the generation of the change is included
getHistoricalAbilitiesInclusive(pokemonId, pokemonName, generation) ==
    SelectSeq(POKEMON_ABILITY_CHANGES, LAMBDA change :
        /\ (change.pokemonId = pokemonId \/ change.pokemonName = pokemonName)
        /\ generation <= change.changeGeneration)

\* mutant of getHistoricalAbilities: id and name must both match
getHistoricalAbilitiesBothMatch(pokemonId, pokemonName, generation) ==
    SelectSeq(POKEMON_ABILITY_CHANGES, LAMBDA change :
        /\ (change.pokemonId = pokemonId /\ change.pokemonName = pokemonName)
        /\ generation < change.changeGeneration)

getHistoricalAbilities(pokemonId, pokemonName, generation) ==
    SelectSeq(POKEMON_ABILITY_CHANGES, LAMBDA change :
        LET matchesId   == change.pokemonId = pokemonId
            matchesName == change.pokemonName = pokemonName
        IN  IF ~matchesId /\ ~matchesName
            THEN FALSE
            ELSE generation < change.changeGeneration)

\* JavaScript truthiness of a string or undefined
Truthy(x) == x # Undefined /\ x # ""

\* the Map filled by the loop over historicalChanges: new ability -> old ability
RECURSIVE Replacements(_)
Replacements(historicalChanges) ==
    IF historicalChanges = <<>>
    THEN <<>>
    ELSE LET n      == Len(historicalChanges)
             change == historicalChanges[n]
         IN  MapSet(Replacements(SubSeq(historicalChanges, 1, n - 1)),
                    change.newAbility, change.oldAbility)

\* mutant of applyHistoricalAbilityChanges: the replacement map is keyed by
\* the old ability
applyHistoricalAbilityChangesReversed(pokemonId, pokemonName, currentAbilities, generation) ==
    LET historicalChanges == getHistoricalAbilities(pokemonId, pokemonName, generation)
        olds == {historicalChanges[j].oldAbility : j \in 1 .. Len(historicalChanges)}
    IN  [i \in 1 .. Len(currentAbilities) |->
            LET ability == currentAbilities[i]
            IN  IF ability.name \in olds
                THEN [name |-> (CHOOSE c \in {historicalChanges[j] : j \in 1 .. Len(historicalChanges)} :
                                    c.oldAbility = ability.name).newAbility,
                      isHidden |-> ability.isHidden]
                ELSE [name |-> ability.name, isHidden |-> ability.isHidden]]

\* mutant of applyHistoricalAbilityChanges: a replaced ability loses its
\* hidden flag
applyHistoricalAbilityChangesUnhides(pokemonId, pokemonName, currentAbilities, generation) ==
    LET replacements == Replacements(getHistoricalAbilities(pokemonId, pokemonName, generation))
    IN  [i \in 1 .. Len(currentAbilities) |->
            LET ability    == currentAbilities[i]
                oldAbility == MapGet(replacements, ability.name)
            IN  IF Truthy(oldAbility)
                THEN [name |-> oldAbility, isHidden |-> FALSE]
                ELSE [name |-> ability.name, isHidden |-> ability.isHidden]]

applyHistoricalAbilityChanges(pokemonId, pokemonName, currentAbilities, generation) ==
    LET historicalChanges == getHistoricalAbilities(pokemonId, pokemonName, generation)
    IN  IF Len(historicalChanges) = 0
        THEN [i \in 1 .. Len(currentAbilities) |->
                 [name |-> currentAbilities[i].name,
                  isHidden |-> currentAbilities[i].isHidden]]
        ELSE LET replacements == Replacements(historicalChanges)
             IN  [i \in 1 .. Len(currentAbilities) |->
                     LET ability    == currentAbilities[i]
                         oldAbility == MapGet(replacements, ability.name)
                     IN  IF Truthy(oldAbility)
                         THEN [name |-> oldAbility, isHidden |-> ability.isHidden]
                         ELSE [name |-> ability.name, isHidden |-> ability.isHidden]]

\* inputs: the ids and names of the table, and some that are in no record
TableIds   == {POKEMON_ABILITY_CHANGES[i].pokemonId : i \in 1 .. Len(POKEMON_ABILITY_CHANGES)}
TableNames == {POKEMON_ABILITY_CHANGES[i].pokemonName : i \in 1 .. Len(POKEMON_ABILITY_CHANGES)}
PokemonIds   == TableIds \cup {25, 999}
PokemonNames == TableNames \cup {"pikachu", "wrong-name"}

\* the entities abilities are rewritten for: every record's own id and name,
\* an id with another name, a name with another id, an id and a name of two
\* different records, and entities of no record
Entities ==
    {<<POKEMON_ABILITY_CHANGES[i].pokemonId, POKEMON_ABILITY_CHANGES[i].pokemonName>> :
        i \in 1 .. Len(POKEMON_ABILITY_CHANGES)}
    \cup {<<94, "wrong-name">>, <<999, "gengar">>, <<243, "entei">>,
          <<545, "gengar">>, <<25, "pikachu">>, <<999, "wrong-name">>}

\* ability names an entity's current list is drawn from: the new abilities of
\* the records that match it, one that is new in another record, one in none
AbilityNames(e) ==
    {POKEMON_ABILITY_CHANGES[i].newAbility :
        i \in {j \in 1 .. Len(POKEMON_ABILITY_CHANGES) :
                  \/ POKEMON_ABILITY_CHANGES[j].pokemonId = e[1]
                  \/ POKEMON_ABILITY_CHANGES[j].pokemonName = e[2]}}
    \cup {"static", "torrent"}

\* current ability lists as the API gives them: a hidden ability is in slot 3
AbilityLists(e) ==
    UNION {{[i \in 1 .. n |-> [name |-> f[i][1], isHidden |-> f[i][2],
                               slot |-> IF f[i][2] THEN 3 ELSE i]] :
               f \in [1 .. n -> AbilityNames(e) \X BOOLEAN]} : n \in 0 .. MaxAbilities}

NoAbilityInput == [pokemonId |-> 0, pokemonName |-> "", generation |-> 0,
                   currentAbilities |-> <<>>]

NoAbilityOp == [op |-> "none", historical |-> <<>>, result |-> <<>>]

AbilityGetHistorical ==
    /\ lastAbility.op = "none"
    /\ abilityIn # NoAbilityInput
    /\ lastAbility' = [op |-> "getHistorical",
                       historical |-> getHistoricalAbilities(abilityIn.pokemonId,
                                          abilityIn.pokemonName, abilityIn.generation),
                       result |-> <<>>]
    /\ UNCHANGED <<abilityIn, cacheVars, genVars, movesVars, transformVars, detailVars, versionVars, abilityDetailVars, moveCallVars, generationVars, listVars, keyVars, entityVars, spriteVars, boxVars, phaseVars>>

AbilityApply ==
    /\ lastAbility.op = "none"
    /\ abilityIn # NoAbilityInput
    /\ lastAbility' = [op |-> "apply",
                       historical |-> getHistoricalAbilities(abilityIn.pokemonId,
                                          abilityIn.pokemonName, abilityIn.generation),
                       result |-> applyHistoricalAbilityChanges(abilityIn.pokemonId,
                                      abilityIn.pokemonName, abilityIn.currentAbilities,
                                      abilityIn.generation)]
    /\ UNCHANGED <<abilityIn, cacheVars, genVars, movesVars, transformVars, detailVars, versionVars, abilityDetailVars, moveCallVars, generationVars, listVars, keyVars, entityVars, spriteVars, boxVars, phaseVars>>

(***************************************************************************)
(* Version groups                                                          *)
(***************************************************************************)
VERSION_GROUP_TO_GENERATION == {
    <<"red-blue", 1>>, <<"yellow", 1>>,
    <<"gold-silver", 2>>, <<"crystal", 2>>,
    <<"ruby-sapphire", 3>>, <<"emerald", 3>>, <<"firered-leafgreen", 3>>,
    <<"colosseum", 3>>, <<"xd", 3>>,
    <<"diamond-pearl", 4>>, <<"platinum", 4>>, <<"heartgold-soulsilver", 4>>,
    <<"black-white", 5>>, <<"black-2-white-2", 5>>,
    <<"x-y", 6>>, <<"omega-ruby-alpha-sapphire", 6>>,
    <<"sun-moon", 7>>, <<"ultra-sun-ultra-moon", 7>>,
    <<"lets-go-pikachu-lets-go-eevee", 7>>,
    <<"sword-shield", 8>>, <<"the-isle-of-armor", 8>>, <<"the-crown-tundra", 8>>,
    <<"brilliant-diamond-shining-pearl", 8>>, <<"legends-arceus", 8>>,
    <<"scarlet-violet", 9>>, <<"the-teal-mask", 9>>, <<"the-indigo-disk", 9>> }

\* JavaScript values: a number, NaN, and a value that is neither (a function
\* or an object)
JSNumber(n) == [type |-> "number", n |-> n]
NaN         == [type |-> "NaN", n |-> 0]
JSObject    == [type |-> "object", n |-> 0]

\* a <= n and a - b for such values: what is no number counts as NaN
JSLessEq(a, n) == a.type = "number" /\ a.n <= n
JSMinus(a, b) ==
    IF a.type = "number" /\ b.type = "number" THEN JSNumber(a.n - b.n) ELSE NaN
JSNegative(a) == a.type = "number" /\ a.n < 0

\* VERSION_GROUP_TO_GENERATION is an object literal: the names below are not
\* keys of the table, yet reading them gives what Object.prototype holds
ObjectPrototypeKeys ==
    {"constructor", "hasOwnProperty", "isPrototypeOf", "propertyIsEnumerable",
     "toLocaleString", "toString", "valueOf", "__proto__",
     "__defineGetter__", "__defineSetter__", "__lookupGetter__", "__lookupSetter__"}

\* VERSION_GROUP_TO_GENERATION[versionGroupName] ?? 9
getGenerationFromVersionGroup(versionGroupName) ==
    IF \E e \in VERSION_GROUP_TO_GENERATION : e[1] = versionGroupName
    THEN JSNumber((CHOOSE e \in VERSION_GROUP_TO_GENERATION : e[1] = versionGroupName)[2])
    ELSE IF versionGroupName \in ObjectPrototypeKeys
         THEN JSObject
         ELSE JSNumber(9)

isVersionGroupInGeneration(versionGroupName, maxGeneration) ==
    LET vgGen == getGenerationFromVersionGroup(versionGroupName)
    IN  JSLessEq(vgGen, maxGeneration)

\* inputs: the releases of the table, the unknown names of the tests, and
\* names Object.prototype has
VersionGroupNames ==
    {e[1] : e \in VERSION_GROUP_TO_GENERATION}
    \cup {"", "unknown-version", "gen-10", "unknown"}
    \cup {"constructor", "toString", "__proto__"}

NoVersionInput == [versionGroupName |-> "none", maxGeneration |-> 0]

NoVersionOp == [op |-> "none", ret |-> NaN, isIn |-> FALSE]

VersionGetGeneration ==
    /\ lastVersion.op = "none"
    /\ versionIn # NoVersionInput
    /\ lastVersion' = [op |-> "getGenerationFromVersionGroup",
                       ret |-> getGenerationFromVersionGroup(versionIn.versionGroupName),
                       isIn |-> FALSE]
    /\ UNCHANGED <<versionIn, cacheVars, genVars, abilityVars, movesVars, transformVars,
                   detailVars, abilityDetailVars, moveCallVars, generationVars, listVars, keyVars, entityVars, spriteVars, boxVars, phaseVars>>

VersionIsInGeneration ==
    /\ lastVersion.op = "none"
    /\ versionIn # NoVersionInput
    /\ lastVersion' = [op |-> "isVersionGroupInGeneration",
                       ret |-> getGenerationFromVersionGroup(versionIn.versionGroupName),
                       isIn |-> isVersionGroupInGeneration(versionIn.versionGroupName,
                                                          versionIn.maxGeneration)]
    /\ UNCHANGED <<versionIn, cacheVars, genVars, abilityVars, movesVars, transformVars,
                   detailVars, abilityDetailVars, moveCallVars, generationVars, listVars, keyVars, entityVars, spriteVars, boxVars, phaseVars>>

(***************************************************************************)
(* PokemonRepository.getMoves                                              *)
(***************************************************************************)
\* largest number of moves of an entity, and of learn records of a move
MaxMoves   == 2
MaxDetails == 2

MoveCacheSize == 200

GENERATION_RANGES == <<
    [gen |-> 1, start |-> 1,   end |-> 151],
    [gen |-> 2, start |-> 152, end |-> 251],
    [gen |-> 3, start |-> 252, end |-> 386],
    [gen |-> 4, start |-> 387, end |-> 493],
    [gen |-> 5, start |-> 494, end |-> 649],
    [gen |-> 6, start |-> 650, end |-> 721],
    [gen |-> 7, start |-> 722, end |-> 809],
    [gen |-> 8, start |-> 810, end |-> 905],
    [gen |-> 9, start |-> 906, end |-> 1025] >>

\* GENERATION_RANGES.find(...)?.gen || 1
getGeneration(pokemonId) ==
    LET found == {i \in 1 .. Len(GENERATION_RANGES) :
                     /\ pokemonId >= GENERATION_RANGES[i].start
                     /\ pokemonId <= GENERATION_RANGES[i].end}
    IN  IF found = {}
        THEN 1
        ELSE GENERATION_RANGES[CHOOSE i \in found : \A j \in found : i <= j].gen

\* the last National-Dex id
MaxPokemonId == 1025

\* mutant of pokemonGetGeneration: the check of the id range is missing
pokemonGetGenerationUnchecked(pokemonId) ==
    IF pokemonId <= 151 THEN 1
    ELSE IF pokemonId <= 251 THEN 2
    ELSE IF pokemonId <= 386 THEN 3
    ELSE IF pokemonId <= 493 THEN 4
    ELSE IF pokemonId <= 649 THEN 5
    ELSE IF pokemonId <= 721 THEN 6
    ELSE IF pokemonId <= 809 THEN 7
    ELSE IF pokemonId <= 905 THEN 8
    ELSE 9

\* getGeneration of models/pokemon.ts: a chain of upper limits
pokemonGetGeneration(pokemonId) ==
    IF pokemonId < 1 \/ pokemonId > MaxPokemonId THEN 1
    ELSE IF pokemonId <= 151 THEN 1
    ELSE IF pokemonId <= 251 THEN 2
    ELSE IF pokemonId <= 386 THEN 3
    ELSE IF pokemonId <= 493 THEN 4
    ELSE IF pokemonId <= 649 THEN 5
    ELSE IF pokemonId <= 721 THEN 6
    ELSE IF pokemonId <= 809 THEN 7
    ELSE IF pokemonId <= 905 THEN 8
    ELSE 9

\* integer ids from below 1 to above the last id
IdSlack == 3

GenerationIds == (0 - IdSlack) .. (MaxPokemonId + IdSlack)

NoGenerationInput == 0 - IdSlack - 1

NoGenerationOp == [op |-> "none", model |-> 0, repository |-> 0]

\* both functions are applied to the id
GenerationOf ==
    /\ lastGeneration.op = "none"
    /\ generationIn # NoGenerationInput
    /\ lastGeneration' = [op |-> "getGeneration",
                          model |-> pokemonGetGeneration(generationIn),
                          repository |-> getGeneration(generationIn)]
    /\ UNCHANGED <<generationIn, cacheVars, genVars, abilityVars, movesVars, transformVars,
                   detailVars, versionVars, abilityDetailVars, moveCallVars, listVars, keyVars, entityVars, spriteVars, boxVars, phaseVars>>

\* an optional value: <<>> when it is undefined, <<x>> otherwise
None == <<>>
Some(x) == <<x>>

mainMethods == {"level-up", "machine", "egg", "tutor"}

\* the filter predicate on a version group detail
ValidDetail(d, effectiveGeneration) ==
    IF d.move_learn_method \notin mainMethods
    THEN FALSE
    ELSE JSLessEq(getGenerationFromVersionGroup(d.version_group), effectiveGeneration)

\* mutant of InsertByGeneration: the comparator is genA - genB, oldest first
InsertByGenerationAscending(sorted, x) ==
    LET genX   == getGenerationFromVersionGroup(x.version_group)
        behind == {i \in 1 .. Len(sorted) :
                      JSNegative(JSMinus(genX,
                          getGenerationFromVersionGroup(sorted[i].version_group)))}
        at     == IF behind = {} THEN Len(sorted) + 1
                  ELSE CHOOSE i \in behind : \A j \in behind : i <= j
    IN  SubSeq(sorted, 1, at - 1) \o <<x>> \o SubSeq(sorted, at, Len(sorted))

\* mutant of InsertByGeneration: the sort is not stable, an element goes in
\* front of the elements that compare equal to it
InsertByGenerationUnstable(sorted, x) ==
    LET genX   == getGenerationFromVersionGroup(x.version_group)
        behind == {i \in 1 .. Len(sorted) :
                      ~JSNegative(JSMinus(genX,
                          getGenerationFromVersionGroup(sorted[i].version_group)))}
        at     == IF behind = {} THEN Len(sorted) + 1
                  ELSE CHOOSE i \in behind : \A j \in behind : i <= j
    IN  SubSeq(sorted, 1, at - 1) \o <<x>> \o SubSeq(sorted, at, Len(sorted))

\* Array.prototype.sort is stable: an element goes behind the elements that
\* compare equal to it and stood before it.  Here x stood behind all of sorted.
InsertByGeneration(sorted, x) ==
    LET genX   == getGenerationFromVersionGroup(x.version_group)
        behind == {i \in 1 .. Len(sorted) :
                      JSNegative(JSMinus(
                          getGenerationFromVersionGroup(sorted[i].version_group), genX))}
        at     == IF behind = {} THEN Len(sorted) + 1
                  ELSE CHOOSE i \in behind : \A j \in behind : i <= j
    IN  SubSeq(sorted, 1, at - 1) \o <<x>> \o SubSeq(sorted, at, Len(sorted))

\* .sort((a, b) => genB - genA): latest generation first
RECURSIVE SortByGenerationDesc(_)
SortByGenerationDesc(details) ==
    IF details = <<>>
    THEN <<>>
    ELSE InsertByGeneration(SortByGenerationDesc(SubSeq(details, 1, Len(details) - 1)),
                            details[Len(details)])

validDetails(version_group_details, effectiveGeneration) ==
    SortByGenerationDesc(
        SelectSeq(version_group_details, LAMBDA d : ValidDetail(d, effectiveGeneration)))

\* the Map filled by the loop over pokemon.moves: move name -> method and level
RECURSIVE MoveMap(_, _)
MoveMap(moves, effectiveGeneration) ==
    IF moves = <<>>
    THEN <<>>
    ELSE LET n           == Len(moves)
             pokemonMove == moves[n]
             before      == MoveMap(SubSeq(moves, 1, n - 1), effectiveGeneration)
             valid       == validDetails(pokemonMove.version_group_details,
                                         effectiveGeneration)
         IN  IF Len(valid) > 0
             THEN MapSet(before, pokemonMove.move,
                         [method |-> valid[1].move_learn_method,
                          level  |-> valid[1].level_learned_at])
             ELSE before

\* move names in alphabetical order (String.localeCompare)
Alphabet == <<"absorb", "growl", "surf", "tackle">>
NameRank(name) == CHOOSE i \in 1 .. Len(Alphabet) : Alphabet[i] = name

\* methodOrder[...] ?? 99
MethodOrder(method) ==
    CASE method = "machine" -> 0
      [] method = "egg"     -> 1
      [] method = "tutor"   -> 2
      [] OTHER              -> 99

\* levelLearned || 0
LevelOrZero(levelLearned) == IF levelLearned = None THEN 0 ELSE levelLearned[1]

\* the comparator of moves.sort
CompareMoves(a, b) ==
    IF a.learnMethod = "level-up" /\ b.learnMethod = "level-up"
    THEN LevelOrZero(a.levelLearned) - LevelOrZero(b.levelLearned)
    ELSE IF a.learnMethod = "level-up" THEN -1
    ELSE IF b.learnMethod = "level-up" THEN 1
    ELSE IF MethodOrder(a.learnMethod) # MethodOrder(b.learnMethod)
         THEN MethodOrder(a.learnMethod) - MethodOrder(b.learnMethod)
    ELSE NameRank(a.name) - NameRank(b.name)

InsertMove(sorted, x) ==
    LET behind == {i \in 1 .. Len(sorted) : CompareMoves(x, sorted[i]) < 0}
        at     == IF behind = {} THEN Len(sorted) + 1
                  ELSE CHOOSE i \in behind : \A j \in behind : i <= j
    IN  SubSeq(sorted, 1, at - 1) \o <<x>> \o SubSeq(sorted, at, Len(sorted))

RECURSIVE SortMoves(_)
SortMoves(moves) ==
    IF moves = <<>>
    THEN <<>>
    ELSE InsertMove(SortMoves(SubSeq(moves, 1, Len(moves) - 1)), moves[Len(moves)])

\* the record pokeAPI.getMove returns for a name
MoveRecord(moveName) == [name |-> moveName]

\* mutant of moveDetails: the results stand in the order they became available,
\* the cached ones first, then the fetched ones as their fetches complete
moveDetailsInArrivalOrder(moveNames, arrived) ==
    LET hits == SelectSeq(moveNames,
                          LAMBDA n : \A i \in 1 .. Len(arrived) : arrived[i] # n)
    IN  [i \in 1 .. Len(hits) |-> MoveRecord(hits[i])]
            \o [i \in 1 .. Len(arrived) |-> MoveRecord(arrived[i])]

\* Promise.all: the record for moveNames[i] stands at index i, whenever the
\* fetch of it completes
moveDetails(moveNames, arrived) ==
    [i \in 1 .. Len(moveNames) |-> MoveRecord(moveNames[i])]

\* the MoveData built at an index of moveDetails: the name is the fetched
\* record's, the learn information is that of moveNames[index]
MoveData(moveMap, moveNames, details, index) ==
    LET learnInfo == MapGet(moveMap, moveNames[index])
    IN  [name         |-> details[index].name,
         learnMethod  |-> learnInfo.method,
         levelLearned |-> IF learnInfo.level > 0 THEN Some(learnInfo.level) ELSE None]

\* mutant of EffectiveGenerationOf: the entity's introduction is ignored
EffectiveGenerationOfFilterOnly(generation, session, pokemonId) ==
    IF generation = None THEN session ELSE generation[1]

\* generation ?? session, raised to the generation of the entity
EffectiveGenerationOf(generation, session, pokemonId) ==
    LET filterGeneration  == IF generation = None THEN session ELSE generation[1]
        pokemonGeneration == getGeneration(pokemonId)
    IN  MathMax(filterGeneration, pokemonGeneration)

\* the moves getMoves returns when the fetches complete in the order arrived
GetMovesResult(moves, effectiveGeneration, arrived) ==
    LET moveMap   == MoveMap(moves, effectiveGeneration)
        moveNames == [i \in 1 .. Len(moveMap) |-> moveMap[i].key]
        details   == moveDetails(moveNames, arrived)
    IN  SortMoves([index \in 1 .. Len(details) |->
                      MoveData(moveMap, moveNames, details, index)])

\* the move cache after the lookups of Promise.all: every name is looked up
\* before any fetch completes
RECURSIVE MoveCacheAfterGets(_, _)
MoveCacheAfterGets(m, moveNames) ==
    IF moveNames = <<>>
    THEN m
    ELSE MoveCacheAfterGets(LRUCacheGet(m, Head(moveNames)), Tail(moveNames))

\* the move cache after the fetched moves are stored in their order of arrival
RECURSIVE MoveCacheAfterSets(_, _)
MoveCacheAfterSets(m, arrived) ==
    IF arrived = <<>>
    THEN m
    ELSE MoveCacheAfterSets(
             LRUCacheSet(m, Head(arrived), MoveRecord(Head(arrived)), MoveCacheSize),
             Tail(arrived))

\* the orders in which the fetches of a set of names can complete
Arrivals(names) ==
    {f \in [1 .. Cardinality(names) -> names] :
        \A i, j \in 1 .. Cardinality(names) : i # j => f[i] # f[j]}

\* mutant of MissedNames: the cache is not asked
MissedNamesAll(m, moveNames) == {moveNames[i] : i \in 1 .. Len(moveNames)}

\* the names pokeAPI.getMove is called for: those for which moveCache.get
\* returns undefined (a stored move is an object, never falsy), asked in the
\* order of moveNames
RECURSIVE MissedNames(_, _)
MissedNames(m, moveNames) ==
    IF moveNames = <<>>
    THEN {}
    ELSE (IF ~MapHas(m, Head(moveNames))
          THEN {Head(moveNames)} ELSE {})
         \cup MissedNames(LRUCacheGet(m, Head(moveNames)), Tail(moveNames))

\* learn records of the upstream data: an old and a newer level, two releases
\* of one generation, a method outside the main four, a release the table
\* does not know
LearnRecords == {
    [version_group |-> "red-blue",     move_learn_method |-> "level-up",    level_learned_at |-> 10],
    [version_group |-> "gold-silver",  move_learn_method |-> "level-up",    level_learned_at |-> 8],
    [version_group |-> "crystal",      move_learn_method |-> "tutor",       level_learned_at |-> 0],
    [version_group |-> "sun-moon",     move_learn_method |-> "form-change", level_learned_at |-> 0],
    [version_group |-> "next-release", move_learn_method |-> "machine",     level_learned_at |-> 0] }

\* the learn records of a move: no record twice
DetailLists ==
    UNION {{f \in [1 .. n -> LearnRecords] : \A i, j \in 1 .. n : i # j => f[i] # f[j]} :
              n \in 0 .. MaxDetails}

\* the names of pokemon.moves by position (the API lists a move once)
MoveNameAt == <<"tackle", "surf", "absorb", "growl">>

\* the moves of an entity; at most one of them has several learn records
PokemonMoves ==
    UNION {{[i \in 1 .. n |-> [move |-> MoveNameAt[i], version_group_details |-> f[i]]] :
               f \in {g \in [1 .. n -> DetailLists] :
                          \A i, j \in 1 .. n : (Len(g[i]) > 1 /\ Len(g[j]) > 1) => i = j}} :
              n \in 0 .. MaxMoves}

\* entities introduced in generations 1 and 7; the generation asked for, when
\* one is given; the generation the user picks for the session
MovePokemonIds == {25, 722}
MoveGenerations == {1}
MoveSessionGenerations == {2}

\* inputs for the final sort: one learn record per move, of every main
\* method, level-up at several levels (0 is stored as no level)
MaxSortMoves == 3

SortRecords == {
    [version_group |-> "red-blue",    move_learn_method |-> "level-up", level_learned_at |-> 10],
    [version_group |-> "gold-silver", move_learn_method |-> "level-up", level_learned_at |-> 8],
    [version_group |-> "red-blue",    move_learn_method |-> "level-up", level_learned_at |-> 0],
    [version_group |-> "red-blue",    move_learn_method |-> "machine",  level_learned_at |-> 0],
    [version_group |-> "gold-silver", move_learn_method |-> "egg",      level_learned_at |-> 0],
    [version_group |-> "crystal",     move_learn_method |-> "tutor",    level_learned_at |-> 0] }

SortMoveLists ==
    UNION {{[i \in 1 .. n |-> [move |-> MoveNameAt[i], version_group_details |-> <<f[i]>>]] :
               f \in [1 .. n -> SortRecords]} :
              n \in 0 .. MaxSortMoves}

NoMovesInput == [pokemonId |-> 0, generation |-> None, moves |-> <<>>]

NoMovesOp ==
    [op |-> "none", effectiveGeneration |-> 0, moveMap |-> <<>>, cacheBefore |-> <<>>,
     fetched |-> {}, result |-> <<>>]

getMoves ==
    /\ lastMoves.op = "none"
    /\ movesIn # NoMovesInput
    /\ LET effectiveGeneration == EffectiveGenerationOf(movesIn.generation,
                                      sessionGeneration, movesIn.pokemonId)
           moveMap   == MoveMap(movesIn.moves, effectiveGeneration)
           moveNames == [i \in 1 .. Len(moveMap) |-> moveMap[i].key]
           missed    == MissedNames(moveCache, moveNames)
       IN  \E arrived \in Arrivals(missed) :
               /\ moveCache' = MoveCacheAfterSets(
                                    MoveCacheAfterGets(moveCache, moveNames), arrived)
               /\ lastMoves' = [op |-> "getMoves",
                                effectiveGeneration |-> effectiveGeneration,
                                moveMap |-> moveMap,
                                cacheBefore |-> moveCache,
                                fetched |-> missed,
                                result  |-> GetMovesResult(movesIn.moves,
                                                effectiveGeneration, arrived)]
    /\ UNCHANGED <<movesIn, cacheVars, genVars, abilityVars, transformVars, detailVars, versionVars, abilityDetailVars, moveCallVars, generationVars, listVars, keyVars, entityVars, spriteVars, boxVars, phaseVars>>

\* moves of the entities of later calls: up to MaxCallMoves of the names, each
\* with one record of the first generation
MaxMoveCalls == 2
MaxCallMoves == 2

CallMoveLists ==
    UNION {{[i \in 1 .. n |->
                [move |-> f[i],
                 version_group_details |->
                     <<[version_group |-> "red-blue", move_learn_method |-> "level-up",
                        level_learned_at |-> 10]>>]] :
               f \in {g \in [1 .. n -> {MoveNameAt[k] : k \in 1 .. Len(MoveNameAt)}] :
                          \A i, j \in 1 .. n : i # j => g[i] # g[j]}} :
              n \in 0 .. MaxCallMoves}

\* a caller asks for the moves of another entity, or of the same one again,
\* after the call before has resolved
MovesNextCall ==
    /\ lastMoves.op = "getMoves"
    /\ moveCalls < MaxMoveCalls
    /\ \E id \in MovePokemonIds, moves \in CallMoveLists :
           movesIn' = [pokemonId |-> id, generation |-> None, moves |-> moves]
    /\ lastMoves' = NoMovesOp
    /\ moveCalls' = moveCalls + 1
    /\ UNCHANGED <<moveCache, cacheVars, genVars, abilityVars, transformVars, detailVars,
                   versionVars, abilityDetailVars, generationVars, listVars, keyVars, entityVars, spriteVars, boxVars, phaseVars>>

\* the user picks a generation before the moves are asked for
MovesSetGeneration ==
    /\ lastMoves.op = "none"
    /\ lastGen.op = "none"
    /\ \E g \in MoveSessionGenerations : setSessionGeneration(g)

(***************************************************************************)
(* transformPokemon                                                        *)
(***************************************************************************)
MaxPastTypes == 2

\* hidden abilities exist from generation 5 on
HiddenAbilityGeneration == 5

\* pokemon.types.map(t => t.type.name)
TypeNames(types) == [i \in 1 .. Len(types) |-> types[i].type]

\* mutant of AbilityDisplay: hidden abilities are left out
AbilityDisplayVisible(abilities) ==
    LET visible == SelectSeq(abilities, LAMBDA a : ~a.is_hidden)
    IN  [i \in 1 .. Len(visible) |-> [name |-> visible[i].ability, isHidden |-> FALSE]]

\* pokemon.abilities.map(a => ({ name: a.ability.name, isHidden: a.is_hidden }))
AbilityDisplay(abilities) ==
    [i \in 1 .. Len(abilities) |->
        [name |-> abilities[i].ability, isHidden |-> abilities[i].is_hidden]]

\* the abilities as applyHistoricalAbilityChanges takes them
CurrentAbilities(abilities) ==
    [i \in 1 .. Len(abilities) |->
        [name |-> abilities[i].ability, isHidden |-> abilities[i].is_hidden,
         slot |-> abilities[i].slot]]

\* mutant of getTypesForGeneration: the latest of the later overrides is taken
getTypesForGenerationLatest(pokemon, targetGeneration) ==
    LET past  == pokemon.past_types
        later == {i \in 1 .. Len(past) : targetGeneration < past[i].generation}
    IN  IF later = {}
        THEN TypeNames(pokemon.types)
        ELSE TypeNames(past[CHOOSE i \in later :
                               \A j \in later : past[i].generation >= past[j].generation].types)

\* the types of an entity in a generation: those of the override with the
\* smallest generation above the target, else the current ones
getTypesForGeneration(pokemon, targetGeneration) ==
    LET past  == pokemon.past_types
        later == {i \in 1 .. Len(past) : targetGeneration < past[i].generation}
    IN  IF later = {}
        THEN TypeNames(pokemon.types)
        ELSE TypeNames(past[CHOOSE i \in later :
                               \A j \in later : past[i].generation <= past[j].generation].types)

\* the abilities of an entity in a generation: the historical names, without
\* the hidden ones before these existed
getAbilitiesForGeneration(pokemon, targetGeneration) ==
    LET rewritten == applyHistoricalAbilityChanges(pokemon.id, pokemon.name,
                         CurrentAbilities(pokemon.abilities), targetGeneration)
    IN  IF targetGeneration < HiddenAbilityGeneration
        THEN SelectSeq(rewritten, LAMBDA a : ~a.isHidden)
        ELSE rewritten

\* the generation dependent fields of the display record
transformPokemon(pokemon, targetGeneration) ==
    IF targetGeneration = None
    THEN [id        |-> pokemon.id,
          name      |-> pokemon.name,
          types     |-> TypeNames(pokemon.types),
          abilities |-> AbilityDisplay(pokemon.abilities)]
    ELSE [id        |-> pokemon.id,
          name      |-> pokemon.name,
          types     |-> getTypesForGeneration(pokemon, targetGeneration[1]),
          abilities |-> getAbilitiesForGeneration(pokemon, targetGeneration[1])]

\* inputs: an entity with a changed first ability, one with a changed hidden
\* ability, one without changes
TransformEntities == {<<94, "gengar">>, <<395, "empoleon">>, <<25, "pikachu">>}

TransformAbilityNames(e) ==
    {POKEMON_ABILITY_CHANGES[i].newAbility :
        i \in {j \in 1 .. Len(POKEMON_ABILITY_CHANGES) :
                  POKEMON_ABILITY_CHANGES[j].pokemonId = e[1]}}
    \cup {"static"}

\* pokemon.abilities as the API gives them: a hidden ability is in slot 3
TransformAbilityLists(e) ==
    UNION {{[i \in 1 .. n |-> [ability |-> f[i][1], is_hidden |-> f[i][2],
                               slot |-> IF f[i][2] THEN 3 ELSE i]] :
               f \in [1 .. n -> TransformAbilityNames(e) \X BOOLEAN]} :
              n \in 0 .. MaxAbilities}

\* the generations past_types entries carry, one of them beyond the latest
PastGenerations == {3, 6, 10}

TypesBefore(generation) ==
    CASE generation = 3 -> <<[slot |-> 1, type |-> "normal"]>>
      [] generation = 6 -> <<[slot |-> 1, type |-> "water"]>>
      [] OTHER          -> <<[slot |-> 1, type |-> "ghost"], [slot |-> 2, type |-> "poison"]>>

\* pokemon.past_types: one entry for a generation, in any order
PastTypeLists ==
    UNION {{[i \in 1 .. n |-> [generation |-> f[i], types |-> TypesBefore(f[i])]] :
               f \in {g \in [1 .. n -> PastGenerations] :
                          \A i, j \in 1 .. n : i # j => g[i] # g[j]}} :
              n \in 0 .. MaxPastTypes}

CurrentTypes == <<[slot |-> 1, type |-> "water"], [slot |-> 2, type |-> "fairy"]>>

\* the generation asked for, when one is given
TransformTargets == {None} \cup {Some(g) : g \in {2, 4, 5, 6, 8, 9}}

NoTransformInput == [pokemon |-> <<>>, targetGeneration |-> None]

NoTransformOp == [op |-> "none", result |-> <<>>]

TransformCall ==
    /\ lastTransform.op = "none"
    /\ transformIn # NoTransformInput
    /\ lastTransform' = [op |-> "transform",
                         result |-> transformPokemon(transformIn.pokemon,
                                                     transformIn.targetGeneration)]
    /\ UNCHANGED <<transformIn, cacheVars, genVars, abilityVars, movesVars, detailVars, versionVars, abilityDetailVars, moveCallVars, generationVars, listVars, keyVars, entityVars, spriteVars, boxVars, phaseVars>>

(***************************************************************************)
(* DetailScreen.showPokemon                                                *)
(***************************************************************************)
MaxCalls == 2

\* the sprite section and the sections of the three tabs
SectionNames == {"sprite", "overview", "stats", "moves"}

ShownNames == {"pikachu", "gengar"}

\* the content of a widget: the entity it is about, if any, and what is
\* shown of it
NoContent      == [pokemon |-> "", text |-> ""]
LoadingContent == [pokemon |-> "", text |-> "loading"]
ErrorContent   == [pokemon |-> "", text |-> "error"]
Loaded(name)   == [pokemon |-> name, text |-> "loaded"]

\* what the part of update before its first await writes: the sprite and the
\* moves sections a loading message, the stats section the stats of the
\* entity above one, the overview section nothing
UpdateBegun(old, name) ==
    [s \in SectionNames |->
        CASE s = "sprite"   -> LoadingContent
          [] s = "moves"    -> LoadingContent
          [] s = "stats"    -> [pokemon |-> name, text |-> "loading"]
          [] s = "overview" -> old[s]]

\* mutant of IsStale: a result is never taken for stale
IsStaleNever(loadId, current) == FALSE

\* loadId !== this.currentLoadId
IsStale(loadId, current) == loadId # current

\* the loading boxes on the screen after hideLoading: the box the field
\* refers to, if any, is destroyed
hideLoading(boxes, ref) == boxes \ {ref}

\* mutant of showLoading: the box of an earlier call is not destroyed
showLoadingOrphans(boxes, ref, new) == boxes \cup {new}

\* the loading boxes on the screen after showLoading: the box the field refers
\* to, if any, is destroyed, and a new one is created
showLoading(boxes, ref, new) == (boxes \ {ref}) \cup {new}

\* the National-Dex id of an entity shown
ShownId(name) ==
    CASE name = "pikachu" -> 25
      [] name = "gengar"  -> 94

\* showPokemon up to its first await when the session generation is session:
\* the load id is taken, the loading box of an earlier call is replaced and
\* the details are asked for; getPokemonDetails reads the session generation
\* before its own first await
showPokemonIn(name, session) ==
    /\ Len(calls) < MaxCalls
    /\ currentLoadId' = currentLoadId + 1
    /\ loadingBox' = name
    /\ screenBoxes' = showLoading(screenBoxes, loadingRef, currentLoadId + 1)
    /\ loadingRef' = currentLoadId + 1
    /\ calls' = Append(calls, [name |-> name, loadId |-> currentLoadId + 1,
                               pc |-> "fetching", fetched |-> "pending",
                               pending |-> {},
                               detailsGen |-> MathMax(session, getGeneration(ShownId(name))),
                               headerGen |-> 0, movesGen |-> 0])
    /\ UNCHANGED <<currentPokemon, header, sections, containerVisible>>

showPokemon(name) == showPokemonIn(name, sessionGeneration)

\* getPokemonDetails resolves: a stale call returns, the current one shows
\* the header and begins the update of every section
DetailsResolved(i) ==
    /\ calls[i].pc = "fetching"
    /\ IF IsStale(calls[i].loadId, currentLoadId)
       THEN /\ calls' = [calls EXCEPT ![i].pc = "done", ![i].fetched = "ok"]
            /\ UNCHANGED <<currentPokemon, header, sections>>
       ELSE /\ currentPokemon' = calls[i].name
            /\ header' = calls[i].name
            /\ sections' = UpdateBegun(sections, calls[i].name)
            /\ calls' = [calls EXCEPT
                   ![i].pc = "updating", ![i].fetched = "ok",
                   ![i].pending = SectionNames,
                   ![i].headerGen = MathMax(getSessionGeneration(sessionGeneration),
                                            pokemonGetGeneration(ShownId(calls[i].name))),
                   ![i].movesGen = EffectiveGenerationOf(None, sessionGeneration,
                                                         ShownId(calls[i].name))]
    /\ UNCHANGED <<currentLoadId, containerVisible, loadingBox, boxVars, phaseVars>>

\* getPokemonDetails rejects: the current call shows the error in the sprite
\* section and removes the loading box, a stale one does neither
DetailsRejected(i) ==
    /\ calls[i].pc = "fetching"
    /\ calls' = [calls EXCEPT ![i].pc = "done", ![i].fetched = "failed"]
    /\ IF IsStale(calls[i].loadId, currentLoadId)
       THEN UNCHANGED <<sections, containerVisible, loadingBox, boxVars>>
       ELSE /\ sections' = [sections EXCEPT !["sprite"] = ErrorContent]
            /\ containerVisible' = TRUE
            /\ loadingBox' = ""
            /\ screenBoxes' = hideLoading(screenBoxes, loadingRef)
            /\ loadingRef' = 0
    /\ UNCHANGED <<currentLoadId, currentPokemon, header>>

\* the update of a section completes and writes its content; with the last
\* one Promise.all resolves and showPokemon goes on: the current call shows
\* the screen and removes the loading box, a stale one returns
SectionUpdated(i, s) ==
    /\ calls[i].pc = "updating"
    /\ s \in calls[i].pending
    /\ sections' = [sections EXCEPT ![s] = Loaded(calls[i].name)]
    /\ IF calls[i].pending = {s}
       THEN /\ calls' = [calls EXCEPT ![i].pc = "done", ![i].pending = {}]
            /\ IF IsStale(calls[i].loadId, currentLoadId)
               THEN UNCHANGED <<containerVisible, loadingBox, boxVars>>
               ELSE /\ containerVisible' = TRUE
                    /\ loadingBox' = ""
                    /\ screenBoxes' = hideLoading(screenBoxes, loadingRef)
                    /\ loadingRef' = 0
       ELSE /\ calls' = [calls EXCEPT ![i].pending = calls[i].pending \ {s}]
            /\ UNCHANGED <<containerVisible, loadingBox, boxVars, phaseVars>>
    /\ UNCHANGED <<currentLoadId, currentPokemon, header>>

ShowPokemon ==
    /\ \E name \in ShownNames : showPokemon(name)
    /\ UNCHANGED <<cacheVars, genVars, abilityVars, movesVars, transformVars, versionVars, abilityDetailVars, moveCallVars, generationVars, listVars, keyVars, entityVars, spriteVars, phaseVars>>

DetailsResolve ==
    /\ \E i \in 1 .. Len(calls) : DetailsResolved(i)
    /\ UNCHANGED <<cacheVars, genVars, abilityVars, movesVars, transformVars, versionVars, abilityDetailVars, moveCallVars, generationVars, listVars, keyVars, entityVars, spriteVars, phaseVars>>

DetailsReject ==
    /\ \E i \in 1 .. Len(calls) : DetailsRejected(i)
    /\ UNCHANGED <<cacheVars, genVars, abilityVars, movesVars, transformVars, versionVars, abilityDetailVars, moveCallVars, generationVars, listVars, keyVars, entityVars, spriteVars, phaseVars>>

SectionUpdate ==
    /\ \E i \in 1 .. Len(calls) : \E s \in SectionNames : SectionUpdated(i, s)
    /\ UNCHANGED <<cacheVars, genVars, abilityVars, movesVars, transformVars, versionVars, abilityDetailVars, moveCallVars, generationVars, listVars, keyVars, entityVars, spriteVars, phaseVars>>

(***************************************************************************)
(* PokemonRepository.getAbilityDetails                                     *)
(***************************************************************************)
MaxAbilityCalls == 2

AbilityCacheSize == 100

\* name.split('-'), and word.charAt(0).toUpperCase() + word.slice(1), for the
\* names asked for; a display name is kept as its words, which ' ' joins
SplitName(name) ==
    CASE name = "static"        -> <<"static">>
      [] name = "lightning-rod" -> <<"lightning", "rod">>
      [] name = "cursed-body"   -> <<"cursed", "body">>

CapitalizeWord(word) ==
    CASE word = "static"    -> "Static"
      [] word = "lightning" -> "Lightning"
      [] word = "rod"       -> "Rod"
      [] word = "cursed"    -> "Cursed"
      [] word = "body"      -> "Body"

formatAbilityName(name) ==
    [i \in 1 .. Len(SplitName(name)) |-> CapitalizeWord(SplitName(name)[i])]

\* ability.generation.url.match(/\/generation\/(\d+)\//), parsed, or 1
GenerationOfUrl(url) ==
    CASE url = "https://pokeapi.co/api/v2/generation/3/" -> 3
      [] url = "https://pokeapi.co/api/v2/generation/5/" -> 5
      [] OTHER                                            -> 1

\* what pokeAPI.getAbility settles with: a rejection, a response the
\* processing of which throws (a list is missing), or a response with or
\* without an English name and flavor text
Rejected == [kind |-> "rejected"]
Malformed(name) == [kind |-> "malformed", name |-> name]

AbilityResponses(name) ==
    {Rejected, Malformed(name)}
    \cup {[kind |-> "ability", name |-> name, englishName |-> en, englishFlavor |-> fl,
           short_effect |-> "effect", generationUrl |-> url] :
              en \in {<<>>, <<"Name">>}, fl \in {"", "flavor"},
              url \in {"https://pokeapi.co/api/v2/generation/3/", "generation"}}

\* the record of the catch branch
FallbackDetail(abilityName) ==
    [name |-> abilityName,
     displayName |-> formatAbilityName(abilityName),
     description |-> "Unable to load ability details.",
     effect |-> "",
     generation |-> 1,
     isHidden |-> FALSE]

\* the record built from a response
AbilityDetailOf(ability) ==
    [name |-> ability.name,
     displayName |-> IF ability.englishName # <<>> THEN ability.englishName
                     ELSE formatAbilityName(ability.name),
     description |-> ability.englishFlavor,
     effect |-> ability.short_effect,
     generation |-> GenerationOfUrl(ability.generationUrl),
     isHidden |-> FALSE]

\* mutant of getAbilityDetailsOutcome: there is no catch branch
getAbilityDetailsOutcomeNoCatch(m, abilityName, response) ==
    IF MapHas(m, abilityName)
    THEN [threw |-> FALSE, value |-> LRUCacheGetResult(m, abilityName),
          cache |-> LRUCacheGet(m, abilityName)]
    ELSE IF response.kind = "ability"
         THEN [threw |-> FALSE, value |-> AbilityDetailOf(response),
               cache |-> LRUCacheSet(m, abilityName, AbilityDetailOf(response),
                                     AbilityCacheSize)]
         ELSE [threw |-> TRUE, value |-> FallbackDetail(abilityName), cache |-> m]

\* mutant of getAbilityDetailsOutcome: the catch branch stores its record
getAbilityDetailsOutcomeCachesFallback(m, abilityName, response) ==
    IF MapHas(m, abilityName)
    THEN [threw |-> FALSE, value |-> LRUCacheGetResult(m, abilityName),
          cache |-> LRUCacheGet(m, abilityName)]
    ELSE IF response.kind = "ability"
         THEN [threw |-> FALSE, value |-> AbilityDetailOf(response),
               cache |-> LRUCacheSet(m, abilityName, AbilityDetailOf(response),
                                     AbilityCacheSize)]
         ELSE [threw |-> FALSE, value |-> FallbackDetail(abilityName),
               cache |-> LRUCacheSet(m, abilityName, FallbackDetail(abilityName),
                                     AbilityCacheSize)]

\* getAbilityDetails on the ability cache m when the upstream settles with
\* response: whether it rejects, what it resolves with, and the cache after
getAbilityDetailsOutcome(m, abilityName, response) ==
    IF MapHas(m, abilityName)
    THEN [threw |-> FALSE, value |-> LRUCacheGetResult(m, abilityName),
          cache |-> LRUCacheGet(m, abilityName)]
    ELSE IF response.kind = "ability"
         THEN [threw |-> FALSE, value |-> AbilityDetailOf(response),
               cache |-> LRUCacheSet(m, abilityName, AbilityDetailOf(response),
                                     AbilityCacheSize)]
         ELSE [threw |-> FALSE, value |-> FallbackDetail(abilityName), cache |-> m]

AbilityDetailNames == {"static", "lightning-rod", "cursed-body"}

NoAbilityDetailsOp ==
    [op |-> "none", abilityName |-> "", response |-> Rejected, hit |-> FALSE,
     threw |-> FALSE, value |-> FallbackDetail("static"), cacheBefore |-> <<>>,
     failedBefore |-> FALSE]

\* the call recorded in last took the catch branch
AbilityCallFailed(last) ==
    last.op = "getAbilityDetails" /\ ~last.hit /\ last.response.kind # "ability"

\* one call of getAbilityDetails for abilityName, with any settling of the upstream
getAbilityDetailsCall(abilityName) ==
    \E response \in AbilityResponses(abilityName) :
        LET outcome == getAbilityDetailsOutcome(abilityCache, abilityName, response)
        IN  /\ abilityCache' = outcome.cache
            /\ lastAbilityDetails' =
                   [op |-> "getAbilityDetails", abilityName |-> abilityName,
                    response |-> response,
                    hit |-> MapHas(abilityCache, abilityName),
                    threw |-> outcome.threw, value |-> outcome.value,
                    cacheBefore |-> abilityCache,
                    failedBefore |->
                        /\ AbilityCallFailed(lastAbilityDetails)
                        /\ lastAbilityDetails.abilityName = abilityName]

getAbilityDetails ==
    /\ abilityCalls < MaxAbilityCalls
    /\ \E abilityName \in AbilityDetailNames : getAbilityDetailsCall(abilityName)
    /\ abilityCalls' = abilityCalls + 1
    /\ UNCHANGED <<cacheVars, genVars, abilityVars, movesVars, transformVars, detailVars,
                   versionVars, moveCallVars, generationVars, listVars, keyVars, entityVars, spriteVars, boxVars, phaseVars>>

\* the ability a detail view asks for again after a failure
RetriedAbilityNames == {"static"}

\* getAbilityDetails called for an ability that was asked for before
getAbilityDetailsAgain ==
    /\ abilityCalls < MaxAbilityCalls
    /\ \E abilityName \in RetriedAbilityNames : getAbilityDetailsCall(abilityName)
    /\ abilityCalls' = abilityCalls + 1
    /\ UNCHANGED <<cacheVars, genVars, abilityVars, movesVars, transformVars, detailVars,
                   versionVars, moveCallVars, generationVars, listVars, keyVars, entityVars, spriteVars, boxVars, phaseVars>>

(***************************************************************************)
(* PokemonRepository.getPokemonList                                        *)
(***************************************************************************)
MaxListLen == 3
MaxOffset == 3
MaxLimit == 3

\* url.match(/\/pokemon\/(\d+)\//), parsed, or 0
extractIdFromUrl(url) ==
    CASE url = "https://pokeapi.co/api/v2/pokemon/1/"   -> 1
      [] url = "https://pokeapi.co/api/v2/pokemon/4/"   -> 4
      [] url = "https://pokeapi.co/api/v2/pokemon/152/" -> 152
      [] url = "https://pokeapi.co/api/v2/pokemon/25/"  -> 25
      [] OTHER                                           -> 0

\* array.slice(start, end) for 0 <= start <= end
Slice(list, start, end) ==
    LET from == IF start > Len(list) THEN Len(list) ELSE start
        to   == IF end > Len(list) THEN Len(list) ELSE end
    IN  [i \in 1 .. (to - from) |-> list[from + i]]

\* a || b on an optional number: undefined and 0 are falsy
OrElse(opt, default) == IF opt = None \/ opt = Some(0) THEN default ELSE opt[1]

\* the entries of the generation asked for, or none when there is no such range
FilterByGeneration(allPokemon, generation) ==
    LET found == {i \in 1 .. Len(GENERATION_RANGES) : GENERATION_RANGES[i].gen = generation}
    IN  IF found = {}
        THEN <<>>
        ELSE LET genRange == GENERATION_RANGES[CHOOSE i \in found : \A j \in found : i <= j]
             IN  SelectSeq(allPokemon,
                           LAMBDA p : /\ extractIdFromUrl(p.url) >= genRange.start
                                      /\ extractIdFromUrl(p.url) <= genRange.end)

\* getPokemonList on the loaded list; options is None when it is not given
getPokemonList(allPokemon, options) ==
    IF options = None
    THEN allPokemon
    ELSE LET o == options[1]
             filtered == IF o.generation # None
                         THEN FilterByGeneration(allPokemon, o.generation[1])
                         ELSE allPokemon
         IN  IF o.offset # None \/ o.limit # None
             THEN LET offset == OrElse(o.offset, 0)
                      limit  == OrElse(o.limit, Len(filtered))
                  IN  Slice(filtered, offset, offset + limit)
             ELSE filtered

\* entries of the loaded list: three of the first generation, one of the
\* second, one whose url holds no id
ListItems == {
    [name |-> "bulbasaur",  url |-> "https://pokeapi.co/api/v2/pokemon/1/"],
    [name |-> "charmander", url |-> "https://pokeapi.co/api/v2/pokemon/4/"],
    [name |-> "pikachu",    url |-> "https://pokeapi.co/api/v2/pokemon/25/"],
    [name |-> "chikorita",  url |-> "https://pokeapi.co/api/v2/pokemon/152/"],
    [name |-> "missingno",  url |-> "https://pokeapi.co/api/v2/pokemon/" ] }

LoadedLists ==
    UNION {{f \in [1 .. n -> ListItems] : \A i, j \in 1 .. n : i # j => f[i] # f[j]} :
              n \in 0 .. MaxListLen}

ListGenerations == {0 - 1, 0, 1, 2, 9, 10}

FilterOptionsSet ==
    {None} \cup
    {Some([generation |-> g, offset |-> o, limit |-> l]) :
        g \in {None} \cup {Some(x) : x \in ListGenerations},
        o \in {None} \cup {Some(x) : x \in 0 .. MaxOffset},
        l \in {None} \cup {Some(x) : x \in 0 .. MaxLimit}}

\* no call: options no caller gives
NoListInput ==
    [allPokemon |-> <<>>,
     options |-> Some([generation |-> None, offset |-> None, limit |-> Some(0 - 1)])]

NoListOp == [op |-> "none", result |-> <<>>]

GetPokemonList ==
    /\ lastList.op = "none"
    /\ listIn # NoListInput
    /\ lastList' = [op |-> "getPokemonList",
                    result |-> getPokemonList(listIn.allPokemon, listIn.options)]
    /\ UNCHANGED <<listIn, cacheVars, genVars, abilityVars, movesVars, transformVars,
                   detailVars, versionVars, abilityDetailVars, moveCallVars,
                   generationVars, keyVars, entityVars, spriteVars, boxVars, phaseVars>>

(***************************************************************************)
(* PokemonRepository.getPokemonDetails and the entity cache                *)
(***************************************************************************)
MaxDetailCalls == 2

PokemonCacheSize == 200

\* the keys of the entity cache: a lower-case name or an id
NameKey(name) == [name |-> name, id |-> 0]
IdKey(id)     == [name |-> "", id |-> id]

\* what pokeAPI.getPokemon resolves with
UpstreamPokemon(name) ==
    CASE name = "gengar" ->
            [id |-> 94, name |-> "gengar",
             types |-> <<[slot |-> 1, type |-> "ghost"], [slot |-> 2, type |-> "poison"]>>,
             past_types |-> <<>>,
             abilities |-> <<[ability |-> "cursed-body", is_hidden |-> FALSE, slot |-> 1]>>]
      [] name = "pikachu" ->
            [id |-> 25, name |-> "pikachu",
             types |-> <<[slot |-> 1, type |-> "electric"]>>,
             past_types |-> <<>>,
             abilities |-> <<[ability |-> "static", is_hidden |-> FALSE, slot |-> 1],
                             [ability |-> "lightning-rod", is_hidden |-> TRUE, slot |-> 3]>>]

\* a display record together with the target generation it was built with
Built(pokemon, targetGeneration) ==
    [display |-> transformPokemon(pokemon, targetGeneration),
     builtFor |-> targetGeneration]

\* mutant of UsesEntityCache: every generation takes the cached path
UsesEntityCacheAlways(session) == TRUE

\* sessionGeneration === 9: the call is handed to pokemonService
UsesEntityCache(session) == session = 9

NoResult == [display |-> <<>>, builtFor |-> None]

\* getPokemonDetails up to its first await: the session generation is read;
\* with generation 9 the entity cache is asked and a hit is returned
RepoDetailsBegin(name) ==
    /\ Len(detailCalls) < MaxDetailCalls
    /\ LET session == getSessionGeneration(sessionGeneration)
           start == [name |-> name, session |-> session, started |-> sessionGeneration,
                     service |-> UsesEntityCache(session), touched |-> FALSE,
                     pc |-> "fetching", result |-> NoResult]
       IN  IF UsesEntityCache(session)
           THEN /\ pokemonCache' = LRUCacheGet(pokemonCache, NameKey(name))
                /\ detailCalls' = Append(detailCalls,
                       IF MapHas(pokemonCache, NameKey(name))
                       THEN [start EXCEPT !.touched = TRUE, !.pc = "done",
                                          !.result = LRUCacheGetResult(pokemonCache,
                                                                       NameKey(name))]
                       ELSE [start EXCEPT !.touched = TRUE])
           ELSE /\ detailCalls' = Append(detailCalls, start)
                /\ UNCHANGED pokemonCache

\* the fetches of a call resolve: pokemonService builds the record without a
\* target generation and stores it under name and id; the repository builds
\* it for the larger of the generation read and the generation of the entity
RepoDetailsFetched(i) ==
    /\ detailCalls[i].pc = "fetching"
    /\ LET pokemon == UpstreamPokemon(detailCalls[i].name)
       IN  IF detailCalls[i].service
           THEN LET transformed == Built(pokemon, None)
                IN  /\ pokemonCache' =
                           LRUCacheSet(
                               LRUCacheSet(pokemonCache, NameKey(transformed.display.name),
                                           transformed, PokemonCacheSize),
                               IdKey(transformed.display.id), transformed,
                               PokemonCacheSize)
                    /\ detailCalls' = [detailCalls EXCEPT ![i].pc = "done",
                                                          ![i].result = transformed]
           ELSE LET pokemonGeneration == getGeneration(pokemon.id)
                    effectiveGeneration == MathMax(detailCalls[i].session,
                                                   pokemonGeneration)
                IN  /\ detailCalls' =
                           [detailCalls EXCEPT
                               ![i].pc = "done",
                               ![i].result = Built(pokemon, Some(effectiveGeneration))]
                    /\ UNCHANGED pokemonCache

\* a fetch of a call rejects: the call rejects and nothing is stored
RepoDetailsFailed(i) ==
    /\ detailCalls[i].pc = "fetching"
    /\ detailCalls' = [detailCalls EXCEPT ![i].pc = "failed"]
    /\ UNCHANGED pokemonCache

EntityRest ==
    <<cacheVars, genVars, abilityVars, movesVars, transformVars, detailVars,
      versionVars, abilityDetailVars, moveCallVars, generationVars, listVars, keyVars,
      spriteVars, boxVars, phaseVars>>

RepoDetailsCall ==
    /\ \E name \in ShownNames : RepoDetailsBegin(name)
    /\ UNCHANGED EntityRest

RepoDetailsFetch ==
    /\ \E i \in 1 .. Len(detailCalls) : RepoDetailsFetched(i)
    /\ UNCHANGED EntityRest

RepoDetailsFail ==
    /\ \E i \in 1 .. Len(detailCalls) : RepoDetailsFailed(i)
    /\ UNCHANGED EntityRest

\* the generations the user selects between the calls and while they wait
SelectedGenerations == {1, 5, 8, 9}

EntitySetGeneration == \E g \in SelectedGenerations : setSessionGeneration(g)

(***************************************************************************)
(* ImageService                                                            *)
(***************************************************************************)
MaxSpriteCalls == 2
MaxCycles == 2

SpriteCacheSize == 50

AVAILABLE_COLOR_SPACES == <<"rgb", "din99d">>
AVAILABLE_COLOR_MODES  == <<"full", "256", "16", "8">>
AVAILABLE_DITHER_MODES == <<"ordered", "diffusion", "none">>
AVAILABLE_SYMBOL_SETS  == <<"block", "braille", "ascii", "half", "quad">>

\* array.indexOf(value), counted from 0
IndexOf(array, value) == (CHOOSE i \in 1 .. Len(array) : array[i] = value) - 1

\* the element after value, the first one after the last
CycleNext(array, value) == array[((IndexOf(array, value) + 1) % Len(array)) + 1]

SpriteUrls == {"sprites/25.png", "sprites/94.png"}

\* `${url}-${width}-${height}-${bgColor || 'none'}-${colorSpace}-${colorMode}-
\* ${ditherMode}-${symbolSet}`, kept as its parts; the size and the background
\* are those the sprite section passes
SpriteCacheKey(url, params) ==
    [url |-> url, width |-> 40, height |-> 20, bgColor |-> "none",
     colorSpace |-> params.colorSpace, colorMode |-> params.colorMode,
     ditherMode |-> params.ditherMode, symbolSet |-> params.symbolSet]

\* the output of chafa for an image under the arguments it was started with
ChafaArt(url, params) == [kind |-> "art", url |-> url, params |-> params]

\* createPlaceholder: the text shown for a sprite that could not be made
SpritePlaceholder(params) == [kind |-> "placeholder", url |-> "", params |-> params]

\* urlToAscii up to its first await: the key is built from the parameters of
\* this moment and the cache is asked
urlToAsciiBegin(url) ==
    /\ Len(spriteCalls) < MaxSpriteCalls
    /\ LET cacheKey == SpriteCacheKey(url, renderParams)
           start == [url |-> url, cacheKey |-> cacheKey, pc |-> "downloading",
                     rendered |-> renderParams, hit |-> FALSE, asked |-> renderParams,
                     failedBefore |->
                         \E i \in 1 .. Len(spriteCalls) :
                             /\ spriteCalls[i].cacheKey = cacheKey
                             /\ spriteCalls[i].pc = "failed",
                     result |-> SpritePlaceholder(renderParams)]
       IN  /\ spriteCache' = LRUCacheGet(spriteCache, cacheKey)
           /\ spriteCalls' = Append(spriteCalls,
                  IF MapHas(spriteCache, cacheKey)
                  THEN [start EXCEPT !.pc = "done", !.hit = TRUE,
                                     !.result = LRUCacheGetResult(spriteCache, cacheKey)]
                  ELSE start)
    /\ UNCHANGED <<renderParams, cycles>>

\* downloadImage resolves: chafa is started with the parameters of this moment
SpriteDownloaded(i) ==
    /\ spriteCalls[i].pc = "downloading"
    /\ spriteCalls' = [spriteCalls EXCEPT ![i].pc = "converting",
                                          ![i].rendered = renderParams]
    /\ UNCHANGED <<spriteCache, renderParams, cycles>>

\* chafa closes with code 0: the art is stored under the key built at the
\* start of the call and returned
SpriteConverted(i) ==
    /\ spriteCalls[i].pc = "converting"
    /\ LET ascii == ChafaArt(spriteCalls[i].url, spriteCalls[i].rendered)
       IN  /\ spriteCache' = LRUCacheSet(spriteCache, spriteCalls[i].cacheKey, ascii,
                                         SpriteCacheSize)
           /\ spriteCalls' = [spriteCalls EXCEPT ![i].pc = "done", ![i].result = ascii]
    /\ UNCHANGED <<renderParams, cycles>>

\* downloadImage or chafa rejects: the placeholder is returned
SpriteFailed(i) ==
    /\ spriteCalls[i].pc \in {"downloading", "converting"}
    /\ spriteCalls' = [spriteCalls EXCEPT ![i].pc = "failed",
                                          ![i].result = SpritePlaceholder(renderParams)]
    /\ UNCHANGED <<spriteCache, renderParams, cycles>>

SpriteRest ==
    <<cacheVars, genVars, abilityVars, movesVars, transformVars, detailVars,
      versionVars, abilityDetailVars, moveCallVars, generationVars, listVars, keyVars,
      entityVars, boxVars, phaseVars>>

UrlToAscii ==
    /\ \E url \in SpriteUrls : urlToAsciiBegin(url)
    /\ UNCHANGED SpriteRest

SpriteDownload ==
    /\ \E i \in 1 .. Len(spriteCalls) : SpriteDownloaded(i)
    /\ UNCHANGED SpriteRest

SpriteConvert ==
    /\ \E i \in 1 .. Len(spriteCalls) : SpriteConverted(i)
    /\ UNCHANGED SpriteRest

SpriteFail ==
    /\ \E i \in 1 .. Len(spriteCalls) : SpriteFailed(i)
    /\ UNCHANGED SpriteRest

\* the cycle methods: the next value is set and the cache is cleared
cycleColorSpace ==
    /\ cycles < MaxCycles
    /\ cycles' = cycles + 1
    /\ renderParams' = [renderParams EXCEPT
                           !.colorSpace = CycleNext(AVAILABLE_COLOR_SPACES, renderParams.colorSpace)]
    /\ spriteCache' = <<>>
    /\ UNCHANGED <<spriteCalls, SpriteRest>>

\* rotates full, 256, 16, 8
cycleColorMode ==
    /\ cycles < MaxCycles
    /\ cycles' = cycles + 1
    /\ renderParams' = [renderParams EXCEPT
                           !.colorMode = CycleNext(AVAILABLE_COLOR_MODES, renderParams.colorMode)]
    /\ spriteCache' = <<>>
    /\ UNCHANGED <<spriteCalls, SpriteRest>>

\* rotates ordered, diffusion, none
cycleDitherMode ==
    /\ cycles < MaxCycles
    /\ cycles' = cycles + 1
    /\ renderParams' = [renderParams EXCEPT
                           !.ditherMode = CycleNext(AVAILABLE_DITHER_MODES, renderParams.ditherMode)]
    /\ spriteCache' = <<>>
    /\ UNCHANGED <<spriteCalls, SpriteRest>>

\* rotates block, braille, ascii, half, quad
cycleSymbolSet ==
    /\ cycles < MaxCycles
    /\ cycles' = cycles + 1
    /\ renderParams' = [renderParams EXCEPT
                           !.symbolSet = CycleNext(AVAILABLE_SYMBOL_SETS, renderParams.symbolSet)]
    /\ spriteCache' = <<>>
    /\ UNCHANGED <<spriteCalls, SpriteRest>>

(***************************************************************************)
(* BaseDetailSection.reportPhaseStatus                                     *)
(***************************************************************************)
MaxPhaseCalls == 2

LoadingPhases == {"pokemon", "sprite", "evolution"}

\* the callbacks a caller can set: one that returns, and ones that throw when
\* they are told a status
StatusCallbacks == {"returns", "throws-on-loading", "throws-on-complete"}

\* what work settles with
WorkResults == {"result", "42"}

\* this.onStatusUpdate?.(phase, status): whether a callback is invoked and
\* whether the invocation throws
Invoked(callback) == callback # "none"

Throws(callback, status) ==
    \/ callback = "throws-on-loading" /\ status = "loading"
    \/ callback = "throws-on-complete" /\ status = "complete"

\* the invocations a call has made, with one more when a callback is set
Notify(log, callback, status) == IF Invoked(callback) THEN Append(log, status) ELSE log

setStatusCallback(callback) ==
    /\ onStatusUpdate' = callback
    /\ UNCHANGED phaseCalls

\* reportPhaseStatus up to the await of work: the callback is told 'loading'
\* outside the try block, then work is started
reportPhaseStatusBegin(phase) ==
    /\ Len(phaseCalls) < MaxPhaseCalls
    /\ phaseCalls' = Append(phaseCalls,
           [phase |-> phase, callbackAtStart |-> onStatusUpdate,
            log |-> Notify(<<>>, onStatusUpdate, "loading"),
            pc |-> IF Throws(onStatusUpdate, "loading") THEN "rejected" ELSE "working",
            workRan |-> ~Throws(onStatusUpdate, "loading"),
            work |-> "pending",
            outcome |-> IF Throws(onStatusUpdate, "loading")
                        THEN "callback-error" ELSE "pending"])
    /\ UNCHANGED onStatusUpdate

\* work rejects: the catch block tells the callback 'complete' and raises the
\* error again, unless the callback throws
AfterWorkRejected(call, callback) ==
    [call EXCEPT !.pc = "rejected", !.work = "rejected",
                 !.log = Notify(call.log, callback, "complete"),
                 !.outcome = IF Throws(callback, "complete")
                             THEN "callback-error" ELSE "work-error"]

\* work resolves: the callback is told 'complete' inside the try block; when
\* that invocation throws, the catch block tells it 'complete' once more
AfterWorkResolved(call, callback, result) ==
    IF Throws(callback, "complete")
    THEN [call EXCEPT !.pc = "rejected", !.work = result,
                      !.log = Notify(Notify(call.log, callback, "complete"),
                                     callback, "complete"),
                      !.outcome = "callback-error"]
    ELSE [call EXCEPT !.pc = "resolved", !.work = result,
                      !.log = Notify(call.log, callback, "complete"),
                      !.outcome = result]

PhaseRest ==
    <<cacheVars, genVars, abilityVars, movesVars, transformVars, detailVars,
      versionVars, abilityDetailVars, moveCallVars, generationVars, listVars, keyVars,
      entityVars, spriteVars, boxVars>>

SetStatusCallback ==
    /\ \E callback \in StatusCallbacks : setStatusCallback(callback)
    /\ UNCHANGED PhaseRest

ReportPhaseStatus ==
    /\ \E phase \in LoadingPhases : reportPhaseStatusBegin(phase)
    /\ UNCHANGED PhaseRest

WorkResolves ==
    /\ \E i \in 1 .. Len(phaseCalls), result \in WorkResults :
           /\ phaseCalls[i].pc = "working"
           /\ phaseCalls' = [phaseCalls EXCEPT
                                ![i] = AfterWorkResolved(phaseCalls[i], onStatusUpdate, result)]
    /\ UNCHANGED <<onStatusUpdate, PhaseRest>>

WorkRejects ==
    /\ \E i \in 1 .. Len(phaseCalls) :
           /\ phaseCalls[i].pc = "working"
           /\ phaseCalls' = [phaseCalls EXCEPT
                                ![i] = AfterWorkRejected(phaseCalls[i], onStatusUpdate)]
    /\ UNCHANGED <<onStatusUpdate, PhaseRest>>

(***************************************************************************)
(* The keys F1 to F9                                                       *)
(***************************************************************************)
MaxKeys == 1

\* the generations of the keys pressed
KeyGenerations == {1, 5}

\* a key handler: the session generation is set and, when the detail screen
\* is visible and shows an entity, that entity is loaded again
GenerationKey(g) ==
    /\ keyPresses < MaxKeys
    /\ keyPresses' = keyPresses + 1
    /\ sessionGeneration' = g
    /\ lastGen' = [op |-> "set", arg |-> g, threw |-> FALSE, ret |-> 0,
                   pre |-> sessionGeneration]
    /\ IF containerVisible /\ currentPokemon # ""
       THEN showPokemonIn(currentPokemon, g)
       ELSE UNCHANGED <<detailVars, boxVars>>
    /\ UNCHANGED <<cacheVars, abilityVars, movesVars, transformVars, versionVars,
                   abilityDetailVars, moveCallVars, generationVars, listVars, entityVars, spriteVars, phaseVars>>

KeyPressed == \E g \in KeyGenerations : GenerationKey(g)

(***************************************************************************)
(* Specifications                                                          *)
(***************************************************************************)
CacheInit ==
    /\ maxSize \in 0 .. MaxCap
    /\ cache = <<>>
    /\ touchLog = <<>>
    /\ lastCache = NoCacheOp

\* a cache that takes no part in the specification
CacheIdle ==
    /\ maxSize = MaxCap
    /\ cache = <<>>
    /\ touchLog = <<>>
    /\ lastCache = NoCacheOp

GenInit ==
    /\ sessionGeneration = DefaultGeneration
    /\ lastGen = NoGenOp

AbilityIdle ==
    /\ abilityIn = NoAbilityInput
    /\ lastAbility = NoAbilityOp

\* the arguments of a call: any id with any name and no abilities, or one
\* of the entities with one of its ability lists
AbilityInit ==
    /\ \/ \E id \in PokemonIds, name \in PokemonNames, g \in Generations :
              abilityIn = [pokemonId |-> id, pokemonName |-> name, generation |-> g,
                           currentAbilities |-> <<>>]
       \/ \E e \in Entities, g \in Generations :
              \E abilities \in AbilityLists(e) :
                  abilityIn = [pokemonId |-> e[1], pokemonName |-> e[2], generation |-> g,
                               currentAbilities |-> abilities]
    /\ lastAbility = NoAbilityOp

MovesIdle ==
    /\ movesIn = NoMovesInput
    /\ moveCache = <<>>
    /\ lastMoves = NoMovesOp

\* the arguments of a call and the pokemon the API returns for it
MovesInit ==
    /\ \E id \in MovePokemonIds, g \in {None} \cup {Some(x) : x \in MoveGenerations} :
           \E moves \in PokemonMoves :
               movesIn = [pokemonId |-> id, generation |-> g, moves |-> moves]
    /\ moveCache = <<>>
    /\ lastMoves = NoMovesOp

\* a call for an entity of generation 1 whose moves have one record each
MovesSortInit ==
    /\ \E moves \in SortMoveLists :
           movesIn = [pokemonId |-> 25, generation |-> None, moves |-> moves]
    /\ moveCache = <<>>
    /\ lastMoves = NoMovesOp

\* the first call of several
MovesCallInit ==
    /\ \E id \in MovePokemonIds, moves \in CallMoveLists :
           movesIn = [pokemonId |-> id, generation |-> None, moves |-> moves]
    /\ moveCache = <<>>
    /\ lastMoves = NoMovesOp

MoveCallsIdle == moveCalls = 0

GenerationIdle ==
    /\ generationIn = NoGenerationInput
    /\ lastGeneration = NoGenerationOp

KeyIdle == keyPresses = 0

\* a section after its construction: no callback is set
PhaseIdle ==
    /\ onStatusUpdate = "none"
    /\ phaseCalls = <<>>

\* no loading box exists and the field loadingBox is undefined (0)
BoxIdle ==
    /\ screenBoxes = {}
    /\ loadingRef = 0

\* the service after its construction on a terminal of the colour mode given
SpriteStart(colorMode) ==
    /\ spriteCache = <<>>
    /\ renderParams = [colorSpace |-> "rgb", colorMode |-> colorMode,
                       ditherMode |-> "ordered", symbolSet |-> "block"]
    /\ spriteCalls = <<>>
    /\ cycles = 0

SpriteIdle == SpriteStart("full")

SpriteInit ==
    \E colorMode \in {AVAILABLE_COLOR_MODES[i] : i \in 1 .. Len(AVAILABLE_COLOR_MODES)} :
        SpriteStart(colorMode)

EntityIdle ==
    /\ pokemonCache = <<>>
    /\ detailCalls = <<>>

ListIdle ==
    /\ listIn = NoListInput
    /\ lastList = NoListOp

\* the list the service has loaded and the options of the call
ListInit ==
    /\ \E l \in LoadedLists, o \in FilterOptionsSet :
           listIn = [allPokemon |-> l, options |-> o]
    /\ lastList = NoListOp

GenerationInit ==
    /\ generationIn \in GenerationIds
    /\ lastGeneration = NoGenerationOp

TransformIdle ==
    /\ transformIn = NoTransformInput
    /\ lastTransform = NoTransformOp

\* the arguments of a call: a raw entity and a target generation or none
TransformInit ==
    /\ \E e \in TransformEntities, target \in TransformTargets, past \in PastTypeLists :
           \E abilities \in TransformAbilityLists(e) :
               transformIn = [pokemon |-> [id |-> e[1], name |-> e[2],
                                           types |-> CurrentTypes,
                                           past_types |-> past,
                                           abilities |-> abilities],
                              targetGeneration |-> target]
    /\ lastTransform = NoTransformOp

DetailIdle ==
    /\ currentLoadId = 0
    /\ currentPokemon = ""
    /\ header = ""
    /\ sections = [s \in SectionNames |-> NoContent]
    /\ containerVisible = FALSE
    /\ loadingBox = ""
    /\ calls = <<>>

VersionIdle ==
    /\ versionIn = NoVersionInput
    /\ lastVersion = NoVersionOp

VersionInit ==
    /\ \E name \in VersionGroupNames, g \in GenArgs :
           versionIn = [versionGroupName |-> name, maxGeneration |-> g]
    /\ lastVersion = NoVersionOp

AbilityDetailIdle ==
    /\ abilityCache = <<>>
    /\ abilityCalls = 0
    /\ lastAbilityDetails = NoAbilityDetailsOp

Init == CacheInit /\ GenInit /\ AbilityIdle /\ MovesIdle /\ TransformIdle /\ DetailIdle /\ VersionIdle /\ AbilityDetailIdle /\ MoveCallsIdle /\ GenerationIdle /\ ListIdle /\ KeyIdle /\ EntityIdle /\ SpriteIdle /\ BoxIdle /\ PhaseIdle

NextCache == CacheGet \/ CacheSet \/ CacheHas \/ CacheClear \/ CacheSize

SpecCache == Init /\ [][NextCache]_vars

InitGen == CacheIdle /\ GenInit /\ AbilityIdle /\ MovesIdle /\ TransformIdle /\ DetailIdle /\ VersionIdle /\ AbilityDetailIdle /\ MoveCallsIdle /\ GenerationIdle /\ ListIdle /\ KeyIdle /\ EntityIdle /\ SpriteIdle /\ BoxIdle /\ PhaseIdle

NextGen == GenSet \/ GenGet \/ GenEffective

SpecGen == InitGen /\ [][NextGen]_vars

InitAbility == CacheIdle /\ GenInit /\ AbilityInit /\ MovesIdle /\ TransformIdle /\ DetailIdle /\ VersionIdle /\ AbilityDetailIdle /\ MoveCallsIdle /\ GenerationIdle /\ ListIdle /\ KeyIdle /\ EntityIdle /\ SpriteIdle /\ BoxIdle /\ PhaseIdle

NextAbility == AbilityGetHistorical \/ AbilityApply

SpecAbility == InitAbility /\ [][NextAbility]_vars

InitMoves == CacheIdle /\ GenInit /\ AbilityIdle /\ MovesInit /\ TransformIdle /\ DetailIdle /\ VersionIdle /\ AbilityDetailIdle /\ MoveCallsIdle /\ GenerationIdle /\ ListIdle /\ KeyIdle /\ EntityIdle /\ SpriteIdle /\ BoxIdle /\ PhaseIdle

NextMoves == MovesSetGeneration \/ getMoves

SpecMoves == InitMoves /\ [][NextMoves]_vars

InitSort == CacheIdle /\ GenInit /\ AbilityIdle /\ MovesSortInit /\ TransformIdle /\ DetailIdle /\ VersionIdle /\ AbilityDetailIdle /\ MoveCallsIdle /\ GenerationIdle /\ ListIdle /\ KeyIdle /\ EntityIdle /\ SpriteIdle /\ BoxIdle /\ PhaseIdle

SpecSort == InitSort /\ [][NextMoves]_vars

\* one repository serves several calls in turn
InitMoveCalls == CacheIdle /\ GenInit /\ AbilityIdle /\ MovesCallInit /\ TransformIdle /\ DetailIdle /\ VersionIdle /\ AbilityDetailIdle /\ MoveCallsIdle /\ GenerationIdle /\ ListIdle /\ KeyIdle /\ EntityIdle /\ SpriteIdle /\ BoxIdle /\ PhaseIdle

NextMoveCalls == getMoves \/ MovesNextCall

SpecMoveCalls == InitMoveCalls /\ [][NextMoveCalls]_vars

\* the two getGeneration functions on one id
InitGeneration == CacheIdle /\ GenInit /\ AbilityIdle /\ MovesIdle /\ TransformIdle /\ DetailIdle /\ VersionIdle /\ AbilityDetailIdle /\ MoveCallsIdle /\ GenerationInit /\ ListIdle /\ KeyIdle /\ EntityIdle /\ SpriteIdle /\ BoxIdle /\ PhaseIdle

NextGeneration == GenerationOf

SpecGeneration == InitGeneration /\ [][NextGeneration]_vars

\* one getPokemonList call
InitList == CacheIdle /\ GenInit /\ AbilityIdle /\ MovesIdle /\ TransformIdle /\ DetailIdle /\ VersionIdle /\ AbilityDetailIdle /\ MoveCallsIdle /\ GenerationIdle /\ ListInit /\ KeyIdle /\ EntityIdle /\ SpriteIdle /\ BoxIdle /\ PhaseIdle

NextList == GetPokemonList

SpecList == InitList /\ [][NextList]_vars

InitTransform == CacheIdle /\ GenInit /\ AbilityIdle /\ MovesIdle /\ TransformInit /\ DetailIdle /\ VersionIdle /\ AbilityDetailIdle /\ MoveCallsIdle /\ GenerationIdle /\ ListIdle /\ KeyIdle /\ EntityIdle /\ SpriteIdle /\ BoxIdle /\ PhaseIdle

NextTransform == TransformCall

SpecTransform == InitTransform /\ [][NextTransform]_vars

\* the detail screen after its construction
InitDetail == CacheIdle /\ GenInit /\ AbilityIdle /\ MovesIdle /\ TransformIdle /\ DetailIdle /\ VersionIdle /\ AbilityDetailIdle /\ MoveCallsIdle /\ GenerationIdle /\ ListIdle /\ KeyIdle /\ EntityIdle /\ SpriteIdle /\ BoxIdle /\ PhaseIdle

NextDetail == ShowPokemon \/ DetailsResolve \/ DetailsReject \/ SectionUpdate

SpecDetail == InitDetail /\ [][NextDetail]_vars

\* lookups of entities while the session generation changes
NextEntity == RepoDetailsCall \/ RepoDetailsFetch \/ RepoDetailsFail \/ EntitySetGeneration

SpecEntity == InitGen /\ [][NextEntity]_vars

\* sprite conversions while the render parameters are cycled
InitSprite == CacheIdle /\ GenInit /\ AbilityIdle /\ MovesIdle /\ TransformIdle /\ DetailIdle /\ VersionIdle /\ AbilityDetailIdle /\ MoveCallsIdle /\ GenerationIdle /\ ListIdle /\ KeyIdle /\ EntityIdle /\ SpriteInit /\ BoxIdle /\ PhaseIdle

NextSprite ==
    \/ UrlToAscii \/ SpriteDownload \/ SpriteConvert \/ SpriteFail
    \/ cycleColorSpace \/ cycleColorMode \/ cycleDitherMode \/ cycleSymbolSet

SpecSprite == InitSprite /\ [][NextSprite]_vars

\* a section whose callback is set and whose phases are reported
NextPhase == SetStatusCallback \/ ReportPhaseStatus \/ WorkResolves \/ WorkRejects

SpecPhase == InitGen /\ [][NextPhase]_vars

\* ability lookups and sprite conversions that can fail
NextPlaceholders ==
    getAbilityDetailsAgain \/ UrlToAscii \/ SpriteDownload \/ SpriteConvert \/ SpriteFail

SpecPlaceholders == InitGen /\ [][NextPlaceholders]_vars

\* the detail screen and the generation keys
NextDetailKeys == NextDetail \/ KeyPressed

SpecDetailKeys == InitDetail /\ [][NextDetailKeys]_vars

InitVersion == CacheIdle /\ GenInit /\ AbilityIdle /\ MovesIdle /\ TransformIdle /\ DetailIdle /\ VersionInit /\ AbilityDetailIdle /\ MoveCallsIdle /\ GenerationIdle /\ ListIdle /\ KeyIdle /\ EntityIdle /\ SpriteIdle /\ BoxIdle /\ PhaseIdle

NextVersion == VersionGetGeneration \/ VersionIsInGeneration

SpecVersion == InitVersion /\ [][NextVersion]_vars

\* a cache of any values
NextCacheAny == CacheGetAny \/ CacheSetAny \/ CacheHasAny

SpecCacheAny == InitGen /\ [][NextCacheAny]_vars

\* the repository after its construction
NextAbilityDetails == getAbilityDetails

SpecAbilityDetails == InitGen /\ [][NextAbilityDetails]_vars

(***************************************************************************)
(* LRUCache properties                                                     *)
(***************************************************************************)
\* the present key whose most recent touch is the oldest
OldestTouched(log, present) ==
    log[CHOOSE i \in 1 .. Len(log) :
            /\ log[i] \in present
            /\ \A j \in 1 .. (i - 1) : log[j] \notin present]

SetOfNewKeyOnFullCache ==
    /\ lastCache.op = "set"
    /\ maxSize >= 1
    /\ ~MapHas(lastCache.pre, lastCache.key)
    /\ Len(lastCache.pre) = maxSize

\* C1: a set of an absent key on a full cache (capacity >= 1) removes exactly
\* one key, the present key whose most recent touch (set, or get that hit) is
\* the oldest; every other present key stays with its value and the new key
\* is stored.
C1_EvictsLeastRecentlyTouched ==
    SetOfNewKeyOnFullCache =>
        LET pre    == lastCache.pre
            before == MapKeys(pre)
            victim == OldestTouched(lastCache.preLog, before)
        IN  /\ before \subseteq {touchLog[i] : i \in 1 .. Len(touchLog)}
            /\ before \ MapKeys(cache) = {victim}
            /\ \A k \in before \ {victim} :
                   MapHas(cache, k) /\ MapGet(cache, k) = MapGet(pre, k)
            /\ MapHas(cache, lastCache.key)
            /\ MapGet(cache, lastCache.key) = lastCache.value

\* C1 witness: an overflowing set whose victim is not the first-touched key
\* of the history (an earlier key was re-read or evicted before).
C1_Witness ==
    /\ SetOfNewKeyOnFullCache
    /\ maxSize >= 2
    /\ Len(cache) = maxSize
    /\ lastCache.preLog[1] \in MapKeys(cache)

\* C2: the size never exceeds the capacity; with capacity 0 the cache is
\* empty after every operation, so get and has miss for every key.
C2_SizeWithinCapacity ==
    /\ LRUCacheSize(cache) <= maxSize
    /\ maxSize = 0 =>
          /\ cache = <<>>
          /\ lastCache.op = "get" => lastCache.ret = Undefined
          /\ lastCache.op = "has" => lastCache.ret = "false"

\* C2 witness: capacity 0, a set has been made, and a get missed.
C2_Witness ==
    /\ maxSize = 0
    /\ touchLog # <<>>
    /\ lastCache.op = "get"
    /\ lastCache.key = touchLog[Len(touchLog)]
    /\ lastCache.ret = Undefined

SetOfPresentKey ==
    /\ lastCache.op = "set"
    /\ maxSize >= 1
    /\ MapHas(lastCache.pre, lastCache.key)

\* C3: a set of a present key (capacity >= 1) stores the new value, moves the
\* key to the most-recently-used end, keeps the size, evicts nothing and
\* leaves the other entries and their order alone; a get that hits returns
\* the stored value.
C3_SetExistingOverwritesAndPromotes ==
    /\ SetOfPresentKey =>
          /\ MapGet(cache, lastCache.key) = lastCache.value
          /\ Len(cache) >= 1
          /\ cache[Len(cache)].key = lastCache.key
          /\ LRUCacheSize(cache) = LRUCacheSize(lastCache.pre)
          /\ MapKeys(cache) = MapKeys(lastCache.pre)
          /\ MapDelete(cache, lastCache.key) = MapDelete(lastCache.pre, lastCache.key)
    /\ (lastCache.op = "get" /\ MapHas(lastCache.pre, lastCache.key)) =>
          lastCache.ret = MapGet(lastCache.pre, lastCache.key)

\* C3 witness: the least-recently-used key of a full cache is set again with
\* a different value.
C3_Witness ==
    /\ SetOfPresentKey
    /\ maxSize >= 2
    /\ Len(lastCache.pre) = maxSize
    /\ lastCache.pre[1].key = lastCache.key
    /\ lastCache.pre[1].value # lastCache.value

(***************************************************************************)
(* GenerationService properties                                            *)
(***************************************************************************)
\* C7: the session generation starts at 9 and is always in 1..9; a set with
\* g in 1..9 succeeds and getSessionGeneration then returns g; a set with
\* g < 1 or g > 9 throws and leaves the stored value as it was.
C7_SessionGenerationValidated ==
    /\ sessionGeneration \in 1 .. 9
    /\ lastGen.op = "none" => sessionGeneration = 9
    /\ lastGen.op = "set" =>
          IF lastGen.arg \in 1 .. 9
          THEN ~lastGen.threw /\ getSessionGeneration(sessionGeneration) = lastGen.arg
          ELSE lastGen.threw /\ sessionGeneration = lastGen.pre
    /\ lastGen.op = "get" => lastGen.ret = sessionGeneration

\* C7 witness: a rejected set of 0 after the value had been changed from 9.
C7_Witness ==
    /\ lastGen.op = "set"
    /\ lastGen.arg = 0
    /\ lastGen.threw
    /\ sessionGeneration = 4

\* C8: getEffectiveGeneration(p) is max(session, p): never below p, never
\* below the session generation, one of the two; the session generation is
\* not changed by the call.
C8_EffectiveGenerationIsMax ==
    lastGen.op = "effective" =>
        /\ lastGen.ret >= lastGen.arg
        /\ lastGen.ret >= lastGen.pre
        /\ lastGen.ret \in {lastGen.arg, lastGen.pre}
        /\ sessionGeneration = lastGen.pre

\* C8 witness: session 3, entity introduced in generation 7, result 7.
C8_Witness ==
    /\ lastGen.op = "effective"
    /\ lastGen.pre = 3
    /\ lastGen.arg = 7
    /\ lastGen.ret = 7

(***************************************************************************)
(* Historical ability properties                                           *)
(***************************************************************************)
AbilityTableIndexes == 1 .. Len(POKEMON_ABILITY_CHANGES)

\* C4: for a record with changeGeneration G, applied to the record's own id
\* and name, an entry of the current list that carries the record's new
\* ability with hidden flag h comes out, at the same position, as the old
\* ability with flag h at generation G-1 and as the new ability with flag h
\* at generation G.
C4_OverrideDirectionality ==
    lastAbility.op = "apply" =>
        \A r \in AbilityTableIndexes :
            LET change == POKEMON_ABILITY_CHANGES[r]
            IN  (/\ abilityIn.pokemonId = change.pokemonId
                 /\ abilityIn.pokemonName = change.pokemonName) =>
                    \A i \in 1 .. Len(abilityIn.currentAbilities) :
                        LET ability == abilityIn.currentAbilities[i]
                        IN  ability.name = change.newAbility =>
                              /\ Len(lastAbility.result) >= i
                              /\ abilityIn.generation = change.changeGeneration - 1 =>
                                    lastAbility.result[i] =
                                        [name |-> change.oldAbility, isHidden |-> ability.isHidden]
                              /\ abilityIn.generation = change.changeGeneration =>
                                    lastAbility.result[i] =
                                        [name |-> change.newAbility, isHidden |-> ability.isHidden]

\* C4 witness: empoleon (changed in generation 9) viewed at generation 8 with
\* the hidden ability competitive in second position, which becomes defiant.
C4_Witness ==
    /\ lastAbility.op = "apply"
    /\ abilityIn.pokemonId = 395
    /\ abilityIn.pokemonName = "empoleon"
    /\ abilityIn.generation = 8
    /\ Len(abilityIn.currentAbilities) = 2
    /\ abilityIn.currentAbilities[2].name = "competitive"
    /\ abilityIn.currentAbilities[2].isHidden
    /\ lastAbility.result[2] = [name |-> "defiant", isHidden |-> TRUE]

\* the indexes of the records that apply to (id, name) at generation g
ApplicableIndexes(id, name, g) ==
    {i \in AbilityTableIndexes :
        /\ (POKEMON_ABILITY_CHANGES[i].pokemonId = id
            \/ POKEMON_ABILITY_CHANGES[i].pokemonName = name)
        /\ g < POKEMON_ABILITY_CHANGES[i].changeGeneration}

\* the j-th smallest element of a set of indexes
NthIndex(idx, j) == CHOOSE i \in idx : Cardinality({k \in idx : k <= i}) = j

\* C5: getHistoricalAbilities(id, name, g) is the list, in table order, of
\* exactly the records with (id matches or name matches) and
\* g < changeGeneration.
C5_HistoricalAbilitiesExact ==
    lastAbility.op \in {"getHistorical", "apply"} =>
        LET idx == ApplicableIndexes(abilityIn.pokemonId, abilityIn.pokemonName,
                                     abilityIn.generation)
        IN  /\ Len(lastAbility.historical) = Cardinality(idx)
            /\ \A j \in 1 .. Len(lastAbility.historical) :
                   lastAbility.historical[j] = POKEMON_ABILITY_CHANGES[NthIndex(idx, j)]

\* C5 witness: an id of one record and the name of another, both changes
\* still ahead: both records are returned, in table order.
C5_Witness ==
    /\ lastAbility.op = "getHistorical"
    /\ abilityIn.pokemonId = 94
    /\ abilityIn.pokemonName = "scolipede"
    /\ abilityIn.generation = 5
    /\ Len(lastAbility.historical) = 2
    /\ lastAbility.historical[1].pokemonName = "scolipede"
    /\ lastAbility.historical[2].pokemonId = 94

\* C6: the output has the length and order of the input; entry i has the
\* hidden flag of input i and no slot; its name is the old ability of a
\* returned override whose new ability is the input name, and the input name
\* when there is no such override.
C6_ApplyPreservesShape ==
    lastAbility.op = "apply" =>
        LET current    == abilityIn.currentAbilities
            historical == lastAbility.historical
            result     == lastAbility.result
        IN  /\ Len(result) = Len(current)
            /\ current = <<>> => result = <<>>
            /\ \A i \in 1 .. Len(current) :
                   LET matching == {j \in 1 .. Len(historical) :
                                       historical[j].newAbility = current[i].name}
                   IN  /\ DOMAIN result[i] = {"name", "isHidden"}
                       /\ result[i].isHidden = current[i].isHidden
                       /\ IF matching = {}
                          THEN result[i].name = current[i].name
                          ELSE result[i].name \in {historical[j].oldAbility : j \in matching}

\* C6 witness: scolipede at generation 5 with two abilities, of which only
\* speed-boost is rewritten.
C6_Witness ==
    /\ lastAbility.op = "apply"
    /\ abilityIn.pokemonId = 545
    /\ abilityIn.generation = 5
    /\ Len(abilityIn.currentAbilities) = 2
    /\ abilityIn.currentAbilities[1].name = "torrent"
    /\ abilityIn.currentAbilities[2].name = "speed-boost"
    /\ lastAbility.result[1].name = "torrent"
    /\ lastAbility.result[2].name = "quick-feet"

(***************************************************************************)
(* getMoves properties                                                     *)
(***************************************************************************)
ReleaseGeneration(d) == getGenerationFromVersionGroup(d.version_group).n

RecordsOf(pokemonMove) ==
    {pokemonMove.version_group_details[i] :
        i \in 1 .. Len(pokemonMove.version_group_details)}

\* the result entries for a move name
EntriesFor(result, name) == {i \in 1 .. Len(result) : result[i].name = name}

\* a result entry carries the method and level of a learn record (a level of
\* 0 is reported as no level)
TakenFrom(entry, d) ==
    /\ entry.learnMethod = d.move_learn_method
    /\ entry.levelLearned = IF d.level_learned_at > 0 THEN Some(d.level_learned_at) ELSE None

\* with survivors as given, every move with a survivor is in the result once,
\* taken from a survivor of the largest generation, and no other move is
ResolvedFrom(Survivors(_)) ==
    \A m \in 1 .. Len(movesIn.moves) :
        LET pokemonMove == movesIn.moves[m]
            survivors   == Survivors(pokemonMove)
            entries     == EntriesFor(lastMoves.result, pokemonMove.move)
        IN  IF survivors = {}
            THEN entries = {}
            ELSE /\ Cardinality(entries) = 1
                 /\ \A i \in entries :
                        \E d \in survivors :
                            /\ TakenFrom(lastMoves.result[i], d)
                            /\ \A other \in survivors :
                                   ReleaseGeneration(other) <= ReleaseGeneration(d)

SurvivorsByGeneration(pokemonMove) ==
    {d \in RecordsOf(pokemonMove) : ReleaseGeneration(d) <= lastMoves.effectiveGeneration}

SurvivorsByGenerationAndMethod(pokemonMove) ==
    {d \in RecordsOf(pokemonMove) :
        /\ d.move_learn_method \in {"level-up", "machine", "egg", "tutor"}
        /\ ReleaseGeneration(d) <= lastMoves.effectiveGeneration}

\* C9 as stated: the surviving learn records of a move are those whose release
\* maps to a generation <= E; a move with a survivor appears exactly once,
\* with the method and level of a survivor of the largest generation; a move
\* with no survivor does not appear.
C9_Original ==
    lastMoves.op = "getMoves" => ResolvedFrom(SurvivorsByGeneration)

\* C9 amended: the surviving learn records of a move are those whose method is
\* level-up, machine, egg or tutor and whose release maps to a generation
\* <= E; a move with a survivor appears exactly once, with the method and
\* level of a survivor of the largest generation; a move with no survivor
\* does not appear; the result holds no other entry.
C9_LatestValidRecordWins ==
    lastMoves.op = "getMoves" =>
        /\ ResolvedFrom(SurvivorsByGenerationAndMethod)
        /\ \A i \in 1 .. Len(lastMoves.result) :
               \E m \in 1 .. Len(movesIn.moves) :
                   movesIn.moves[m].move = lastMoves.result[i].name

\* C9 witness: level 10 in red-blue and level 8 in gold-silver, both within
\* the effective generation: the move is returned with level 8; a second move
\* whose only record is of a later release is not returned.
C9_Witness ==
    /\ lastMoves.op = "getMoves"
    /\ lastMoves.effectiveGeneration = 2
    /\ Len(movesIn.moves) = 2
    /\ RecordsOf(movesIn.moves[1]) =
          {d \in LearnRecords : d.version_group \in {"red-blue", "gold-silver"}}
    /\ movesIn.moves[1].version_group_details[1].version_group = "red-blue"
    /\ RecordsOf(movesIn.moves[2]) =
          {d \in LearnRecords : d.version_group = "next-release"}
    /\ Len(lastMoves.result) = 1
    /\ lastMoves.result[1] =
          [name |-> "tackle", learnMethod |-> "level-up", levelLearned |-> Some(8)]

\* C10: getMoves resolves at max(g, introducedIn(id)), g being the session
\* generation when no generation is given; every returned move carries a
\* learn record of its move whose release generation is within that maximum.
C10_MovesResolvedAtEffectiveGeneration ==
    lastMoves.op = "getMoves" =>
        LET g          == IF movesIn.generation = None
                          THEN sessionGeneration
                          ELSE movesIn.generation[1]
            introduced == getGeneration(movesIn.pokemonId)
            E          == lastMoves.effectiveGeneration
        IN  /\ E >= g
            /\ E >= introduced
            /\ E \in {g, introduced}
            /\ \A i \in 1 .. Len(lastMoves.result) :
                   \E m \in 1 .. Len(movesIn.moves) :
                       /\ movesIn.moves[m].move = lastMoves.result[i].name
                       /\ \E d \in RecordsOf(movesIn.moves[m]) :
                              /\ TakenFrom(lastMoves.result[i], d)
                              /\ (ReleaseGeneration(d) <= g \/ ReleaseGeneration(d) <= introduced)

\* C10 witness: an entity of generation 7 asked for with no generation while
\* the session is at generation 2: resolved at 7, the gold-silver record is
\* taken and the record of the later release is not.
C10_Witness ==
    /\ lastMoves.op = "getMoves"
    /\ movesIn.pokemonId = 722
    /\ movesIn.generation = None
    /\ sessionGeneration = 2
    /\ lastMoves.effectiveGeneration = 7
    /\ Len(movesIn.moves) = 1
    /\ RecordsOf(movesIn.moves[1]) =
          {d \in LearnRecords : d.version_group \in {"gold-silver", "next-release"}}
    /\ Len(lastMoves.result) = 1
    /\ lastMoves.result[1].learnMethod = "level-up"

(***************************************************************************)
(* C11: the order of the moves getMoves returns                            *)
(***************************************************************************)
\* the group a move belongs to: level-up, machine, egg, tutor
C11_Group(method) ==
    CASE method = "level-up" -> 0
      [] method = "machine"  -> 1
      [] method = "egg"      -> 2
      [] method = "tutor"    -> 3

\* the position of a name in moveMap, which is that in pokemon.moves
C11_Position(moveMap, name) == CHOOSE i \in 1 .. Len(moveMap) : moveMap[i].key = name

\* C11: the returned list holds every resolved move once, with its own method
\* and level; level-up moves stand before all others in ascending level, then
\* machine, egg and tutor moves, each group by name; moves of one level keep
\* the order of the upstream move list.  Nothing is left to the order in
\* which the fetches complete.
C11_MovesOrdered ==
    lastMoves.op = "getMoves" =>
        LET r  == lastMoves.result
            mm == lastMoves.moveMap
            level(i) == MapGet(mm, r[i].name).level
        IN  /\ Len(r) = Len(mm)
            /\ \A k \in 1 .. Len(mm) :
                   \E i \in 1 .. Len(r) :
                       /\ r[i].name = mm[k].key
                       /\ r[i].learnMethod = mm[k].value.method
            /\ \A i, j \in 1 .. Len(r) :
                   i < j =>
                       /\ C11_Group(r[i].learnMethod) <= C11_Group(r[j].learnMethod)
                       /\ (r[i].learnMethod = "level-up" /\ r[j].learnMethod = "level-up")
                              => /\ level(i) <= level(j)
                                 /\ level(i) = level(j) =>
                                        C11_Position(mm, r[i].name) < C11_Position(mm, r[j].name)
                       /\ (r[i].learnMethod = r[j].learnMethod /\ r[i].learnMethod # "level-up")
                              => NameRank(r[i].name) < NameRank(r[j].name)

\* three moves listed as tutor, machine, level-up come back reversed, their
\* records having arrived in another order than they were asked for
C11_Witness ==
    /\ lastMoves.op = "getMoves"
    /\ Len(lastMoves.result) = 3
    /\ lastMoves.moveMap[1].value.method = "tutor"
    /\ lastMoves.moveMap[2].value.method = "machine"
    /\ lastMoves.moveMap[3].value.method = "level-up"
    /\ lastMoves.result[1].name = lastMoves.moveMap[3].key
    /\ lastMoves.result[3].name = lastMoves.moveMap[1].key
    /\ moveCache[1].key = lastMoves.moveMap[2].key

(***************************************************************************)
(* C12: type resolution of transformPokemon                                *)
(***************************************************************************)
\* the overrides of the transformed entity whose generation lies above t
C12_Later(t) ==
    {i \in 1 .. Len(transformIn.pokemon.past_types) :
        t < transformIn.pokemon.past_types[i].generation}

C13_NamesFor(ability) ==
    {ability}
    \cup {POKEMON_ABILITY_CHANGES[i].oldAbility :
            i \in {j \in 1 .. Len(POKEMON_ABILITY_CHANGES) :
                      /\ POKEMON_ABILITY_CHANGES[j].newAbility = ability
                      /\ \/ POKEMON_ABILITY_CHANGES[j].pokemonId = transformIn.pokemon.id
                         \/ POKEMON_ABILITY_CHANGES[j].pokemonName = transformIn.pokemon.name}}

C13_WitnessRetained ==
    /\ lastTransform.op = "transform"
    /\ transformIn.targetGeneration = Some(8)
    /\ transformIn.pokemon.id = 395
    /\ Len(transformIn.pokemon.abilities) = 1
    /\ transformIn.pokemon.abilities[1].ability = "competitive"
    /\ transformIn.pokemon.abilities[1].is_hidden
    /\ lastTransform.result.abilities = <<[name |-> "defiant", isHidden |-> TRUE]>>

(***************************************************************************)
(* C14: no target generation, and target generation 9                      *)
(***************************************************************************)
\* the display record shows the current types and abilities of the entity
C14_ShowsCurrent ==
    LET types     == lastTransform.result.types
        abilities == lastTransform.result.abilities
        pokemon   == transformIn.pokemon
    IN  /\ Len(types) = Len(pokemon.types)
        /\ \A k \in 1 .. Len(types) : types[k] = pokemon.types[k].type
        /\ Len(abilities) = Len(pokemon.abilities)
        /\ \A k \in 1 .. Len(abilities) :
               /\ abilities[k].name = pokemon.abilities[k].ability
               /\ abilities[k].isHidden = pokemon.abilities[k].is_hidden

\* C14: without a target generation the current types and abilities are
\* returned as they are; with target generation 9, for an entity whose type
\* overrides carry generations in 1..9, the same types and abilities are
\* returned, so generation 9 may be served without rewriting.
C14_LatestIsCurrent ==
    lastTransform.op = "transform" =>
        /\ transformIn.targetGeneration = None => C14_ShowsCurrent
        /\ (/\ transformIn.targetGeneration = Some(9)
            /\ \A i \in 1 .. Len(transformIn.pokemon.past_types) :
                   transformIn.pokemon.past_types[i].generation \in 1 .. 9)
               => C14_ShowsCurrent

\* an entity with a past type and a changed hidden ability, asked for in
\* generation 9
C14_Witness ==
    /\ lastTransform.op = "transform"
    /\ transformIn.targetGeneration = Some(9)
    /\ transformIn.pokemon.id = 395
    /\ Len(transformIn.pokemon.past_types) = 1
    /\ transformIn.pokemon.past_types[1].generation = 6
    /\ Len(transformIn.pokemon.abilities) = 1
    /\ transformIn.pokemon.abilities[1].ability = "competitive"
    /\ lastTransform.result.abilities = <<[name |-> "competitive", isHidden |-> TRUE]>>
    /\ lastTransform.result.types = <<"water", "fairy">>

\* the same entity, asked for without a generation
C14_WitnessOmitted ==
    /\ lastTransform.op = "transform"
    /\ transformIn.targetGeneration = None
    /\ transformIn.pokemon.id = 395
    /\ Len(transformIn.pokemon.past_types) = 1
    /\ Len(transformIn.pokemon.abilities) = 1
    /\ transformIn.pokemon.abilities[1].ability = "competitive"
    /\ lastTransform.result.types = <<"water", "fairy">>

(***************************************************************************)
(* C15: load ids and stale results                                         *)
(***************************************************************************)
\* a call takes a load id above those of all earlier calls
C15_LoadIdsIncrease ==
    \A i, j \in 1 .. Len(calls) : i < j => calls[i].loadId < calls[j].loadId

\* the fetch of a call settles in this step, a later call having started
C15_SettlesStale(i) ==
    /\ calls[i].pc = "fetching"
    /\ calls'[i].pc # "fetching"
    /\ \E j \in 1 .. Len(calls) : j > i

\* C15: load ids grow strictly from call to call, and a call whose fetch
\* settles after a later call has started leaves currentPokemon, the header,
\* the sections, the visibility of the screen and the loading box alone.
C15_StaleResultDiscarded ==
    /\ []C15_LoadIdsIncrease
    /\ [][(\E i \in 1 .. Len(calls) : C15_SettlesStale(i))
              => UNCHANGED <<currentPokemon, header, sections, containerVisible, loadingBox>>]_vars

\* the fetch of the first call has resolved after the second call started,
\* and nothing is shown of it
C15_Witness ==
    /\ Len(calls) = 2
    /\ calls[1].pc = "done"
    /\ calls[1].fetched = "ok"
    /\ calls[2].pc = "fetching"
    /\ currentPokemon = ""
    /\ loadingBox = calls[2].name

(***************************************************************************)
(* C16: the last request wins                                              *)
(***************************************************************************)
\* C16: when no call is in flight and the fetch of the call started last
\* succeeded, currentPokemon, the header and every section show the entity
\* of that call.
C16_LastRequestWins ==
    (/\ Len(calls) > 0
     /\ \A i \in 1 .. Len(calls) : calls[i].pc = "done"
     /\ calls[Len(calls)].fetched = "ok")
        => /\ currentPokemon = calls[Len(calls)].name
           /\ header = calls[Len(calls)].name
           /\ \A s \in SectionNames : sections[s] = Loaded(calls[Len(calls)].name)

(***************************************************************************)
(* C17: the generation of a release                                        *)
(***************************************************************************)
\* C17: getGenerationFromVersionGroup gives a release of the table its
\* generation, which lies in 1..9, and every other name 9; and
\* isVersionGroupInGeneration(name, g) holds exactly when that generation is
\* at most g.
C17_GenerationOfVersionGroup ==
    lastVersion.op # "none" =>
        LET name  == versionIn.versionGroupName
            known == {e \in VERSION_GROUP_TO_GENERATION : e[1] = name}
        IN  /\ \A e \in known : lastVersion.ret = JSNumber(e[2]) /\ e[2] \in 1 .. 9
            /\ known = {} => lastVersion.ret = JSNumber(9)
            /\ lastVersion.op = "isVersionGroupInGeneration" =>
                   lastVersion.isIn = (/\ lastVersion.ret.type = "number"
                                       /\ lastVersion.ret.n <= versionIn.maxGeneration)

(***************************************************************************)
(* C18: what get returns on a miss                                         *)
(***************************************************************************)
C18_Miss == lastCache.op = "get" /\ ~MapHas(lastCache.pre, lastCache.key)
C18_Hit  == lastCache.op = "get" /\ MapHas(lastCache.pre, lastCache.key)

\* get on a present key returns the stored value and makes the key the most
\* recently used one
C18_HitReturnsAndPromotes ==
    C18_Hit => /\ lastCache.ret = MapGet(lastCache.pre, lastCache.key)
               /\ cache[Len(cache)] = [key |-> lastCache.key, value |-> lastCache.ret]
               /\ Len(cache) = Len(lastCache.pre)

\* C18 as stated: what get returns on a miss is returned on no hit, whatever
\* value is cached, so the result of get alone tells a miss from a hit.
C18_Original ==
    /\ C18_Hit => lastCache.ret # LRUCacheGetResult(<<>>, lastCache.key)
    /\ C18_HitReturnsAndPromotes

\* C18, amended: a miss returns undefined; a hit returns the stored value and
\* promotes the key; so the result of get tells a miss from a hit on null, 0
\* and '' but not from a hit on a cached undefined, which only has tells
\* apart.
C18_MissReturnsUndefined ==
    /\ C18_Miss => lastCache.ret = Undefined
    /\ C18_HitReturnsAndPromotes
    /\ (C18_Hit /\ lastCache.ret = Undefined)
           => MapGet(lastCache.pre, lastCache.key) = Undefined
    /\ (C18_Hit /\ MapGet(lastCache.pre, lastCache.key) \in {"null", "0", ""})
           => lastCache.ret # Undefined
    /\ lastCache.op = "get" => (LRUCacheHas(lastCache.pre, lastCache.key) <=> C18_Hit)

\* a hit on a cached undefined, behind another key, returns undefined and
\* promotes the key
C18_Witness ==
    /\ C18_Hit
    /\ Len(lastCache.pre) = 2
    /\ lastCache.pre[1] = [key |-> lastCache.key, value |-> Undefined]
    /\ lastCache.ret = Undefined
    /\ cache[2].key = lastCache.key

(***************************************************************************)
(* C19: getAbilityDetails does not fail                                    *)
(***************************************************************************)
\* the last call missed the cache and its fetch, or the processing of the
\* response, failed
C19_UpstreamFailed ==
    /\ lastAbilityDetails.op = "getAbilityDetails"
    /\ ~lastAbilityDetails.hit
    /\ lastAbilityDetails.response.kind # "ability"

\* C19: getAbilityDetails never rejects; when the fetch or the processing of
\* its response fails, it resolves with a placeholder that carries the name
\* asked for and the description 'Unable to load ability details.'.
C19_NeverFails ==
    /\ ~lastAbilityDetails.threw
    /\ C19_UpstreamFailed =>
           /\ lastAbilityDetails.value.name = lastAbilityDetails.abilityName
           /\ lastAbilityDetails.value.description = "Unable to load ability details."

\* a malformed response for lightning-rod after an earlier call
C19_Witness ==
    /\ C19_UpstreamFailed
    /\ abilityCalls = 2
    /\ lastAbilityDetails.response.kind = "malformed"
    /\ lastAbilityDetails.abilityName = "lightning-rod"
    /\ lastAbilityDetails.value.displayName = <<"Lightning", "Rod">>
    /\ ~MapHas(abilityCache, "lightning-rod")

(***************************************************************************)
(* C20: a cached move is not fetched again                                 *)
(***************************************************************************)
\* the names the last call asked details for
C20_Asked == {lastMoves.moveMap[i].key : i \in 1 .. Len(lastMoves.moveMap)}

\* C20: a getMoves call made after another has completed, for the same or a
\* different entity, fetches upstream no move name the move cache holds when
\* it is asked; it fetches exactly the names that miss the cache.
C20_OnlyMissesFetched ==
    lastMoves.op = "getMoves" =>
        /\ lastMoves.fetched \cap MapKeys(lastMoves.cacheBefore) = {}
        /\ lastMoves.fetched = C20_Asked \ MapKeys(lastMoves.cacheBefore)

\* a later call for a different entity that shares tackle with an earlier one
\* and fetches surf alone
C20_Witness ==
    /\ lastMoves.op = "getMoves"
    /\ moveCalls >= 1
    /\ movesIn.pokemonId = 722
    /\ C20_Asked = {"tackle", "surf"}
    /\ MapHas(lastMoves.cacheBefore, "tackle")
    /\ lastMoves.fetched = {"surf"}

(***************************************************************************)
(* C21: getGeneration                                                      *)
(***************************************************************************)
\* the generation of the id range that holds id, 1 outside 1..1025
C21_Expected(id) ==
    CASE id \in 1 .. 151    -> 1
      [] id \in 152 .. 251  -> 2
      [] id \in 252 .. 386  -> 3
      [] id \in 387 .. 493  -> 4
      [] id \in 494 .. 649  -> 5
      [] id \in 650 .. 721  -> 6
      [] id \in 722 .. 809  -> 7
      [] id \in 810 .. 905  -> 8
      [] id \in 906 .. 1025 -> 9
      [] OTHER              -> 1

\* C21: for every integer id, getGeneration of the model layer and
\* PokemonRepository.getGeneration both return the generation whose id range
\* holds the id, and 1 for an id outside 1..1025.
C21_GenerationOfId ==
    lastGeneration.op = "getGeneration" =>
        /\ lastGeneration.model = C21_Expected(generationIn)
        /\ lastGeneration.repository = lastGeneration.model

\* an id above the last range
C21_Witness ==
    /\ lastGeneration.op = "getGeneration"
    /\ generationIn = MaxPokemonId + 1
    /\ lastGeneration.repository = 1

(***************************************************************************)
(* C22: getPokemonList                                                     *)
(***************************************************************************)
\* whether the id of an entry lies in the range of a generation
C22_InGeneration(p, generation) ==
    \E i \in 1 .. Len(GENERATION_RANGES) :
        /\ GENERATION_RANGES[i].gen = generation
        /\ extractIdFromUrl(p.url) \in GENERATION_RANGES[i].start .. GENERATION_RANGES[i].end

\* the entries of the generation, all of them when no generation is given
C22_Filtered ==
    LET o == listIn.options[1]
    IN  IF o.generation = None
        THEN listIn.allPokemon
        ELSE SelectSeq(listIn.allPokemon, LAMBDA p : C22_InGeneration(p, o.generation[1]))

\* the part [offset, offset + limit) of a list, by position
C22_Part(list, offset, limit) ==
    LET idx == {i \in 1 .. Len(list) : i > offset /\ i <= offset + limit}
    IN  [k \in 1 .. Cardinality(idx) |-> list[offset + k]]

\* C22: getPokemonList(options) returns, in the order of the loaded list, the
\* entries of options.generation (none for a generation outside 1..9, all
\* when no generation is given), cut to [offset, offset + limit) for every
\* offset >= 0 and limit >= 0; never more than limit entries.
C22_FilteredSlice ==
    (lastList.op = "getPokemonList" /\ listIn.options # None) =>
        LET o == listIn.options[1]
            offset == IF o.offset = None THEN 0 ELSE o.offset[1]
            limit  == IF o.limit = None THEN Len(C22_Filtered) ELSE o.limit[1]
        IN  /\ lastList.result = C22_Part(C22_Filtered, offset, limit)
            /\ o.limit # None => Len(lastList.result) <= o.limit[1]

(***************************************************************************)
(* C23: one generation for types, abilities, moves and header              *)
(***************************************************************************)
\* call i fetched its details, updated every section and was the current load
\* when it completed
C23_CompletedCurrent(i) ==
    /\ calls[i].pc = "done"
    /\ calls[i].fetched = "ok"
    /\ calls[i].loadId = currentLoadId

\* C23: for every showPokemon call that completes as the current load, the
\* generation the types and abilities were resolved against, the generation
\* getMoves used and the generation printed in the header are equal, also when
\* a key F1-F9 changes the session generation while the call is in flight.
C23_OneGeneration ==
    \A i \in 1 .. Len(calls) :
        C23_CompletedCurrent(i) =>
            /\ calls[i].detailsGen = calls[i].movesGen
            /\ calls[i].movesGen = calls[i].headerGen

(***************************************************************************)
(* C24: the entity cache serves generation 9 alone                         *)
(***************************************************************************)
\* the target generation a call that started under a session generation has
\* to build its record with
C24_TargetFor(name, started) ==
    IF started = 9
    THEN None
    ELSE Some(MathMax(started, getGeneration(UpstreamPokemon(name).id)))

\* C24: getPokemonDetails reads and fills the entity cache only when the
\* session generation is 9; every record of the cache was built with no target
\* generation, and the record a call returns is resolved against the session
\* generation in force when the call started.
C24_CacheOnlyForLatest ==
    /\ \A k \in 1 .. Len(pokemonCache) : pokemonCache[k].value.builtFor = None
    /\ \A i \in 1 .. Len(detailCalls) :
           /\ detailCalls[i].touched <=> detailCalls[i].started = 9
           /\ detailCalls[i].pc = "done" =>
                  detailCalls[i].result =
                      Built(UpstreamPokemon(detailCalls[i].name),
                            C24_TargetFor(detailCalls[i].name, detailCalls[i].started))

\* pikachu is cached under generation 9; a call that starts under generation
\* 1 and ends after generation 9 is selected again returns the record of
\* generation 1
C24_Witness ==
    /\ MapHas(pokemonCache, NameKey("pikachu"))
    /\ sessionGeneration = 9
    /\ \E i \in 1 .. Len(detailCalls) :
           /\ detailCalls[i].name = "pikachu"
           /\ detailCalls[i].started = 1
           /\ detailCalls[i].pc = "done"
           /\ detailCalls[i].result.builtFor = Some(1)
           /\ Len(detailCalls[i].result.display.abilities) = 1

(***************************************************************************)
(* C25: cached art matches its key                                         *)
(***************************************************************************)
\* the render parameters a cache key names
C25_ParamsOf(key) ==
    [colorSpace |-> key.colorSpace, colorMode |-> key.colorMode,
     ditherMode |-> key.ditherMode, symbolSet |-> key.symbolSet]

\* C25: every entry of the sprite cache holds art rendered with exactly the
\* parameters its key names, however the cycle methods interleave with a
\* suspended urlToAscii; so urlToAscii never returns cached art rendered with
\* parameters other than the current ones.
C25_CachedArtMatchesKey ==
    /\ \A k \in 1 .. Len(spriteCache) :
           spriteCache[k].value.params = C25_ParamsOf(spriteCache[k].key)
    /\ \A i \in 1 .. Len(spriteCalls) :
           spriteCalls[i].hit => spriteCalls[i].result.params = spriteCalls[i].asked

(***************************************************************************)
(* C26: ties between releases of one generation                            *)
(***************************************************************************)
\* the positions of the learn records of a move that survive the filter
C26_Survivors(details) ==
    {k \in 1 .. Len(details) : ValidDetail(details[k], lastMoves.effectiveGeneration)}

\* among the survivors, those of the largest release generation
C26_Latest(details) ==
    {k \in C26_Survivors(details) :
        \A j \in C26_Survivors(details) :
            ReleaseGeneration(details[j]) <= ReleaseGeneration(details[k])}

\* C26: when several surviving learn records of a move share the largest
\* release generation that does not exceed the effective generation, getMoves
\* selects the first of them in the input order of the learn-record list.
C26_FirstOfTiedRecords ==
    lastMoves.op = "getMoves" =>
        \A i \in 1 .. Len(movesIn.moves) :
            LET details == movesIn.moves[i].version_group_details
                latest  == C26_Latest(details)
            IN  latest # {} =>
                    LET first == CHOOSE k \in latest : \A j \in latest : k <= j
                    IN  MapGet(lastMoves.moveMap, movesIn.moves[i].move) =
                            [method |-> details[first].move_learn_method,
                             level  |-> details[first].level_learned_at]

\* the tutor record of crystal stands before the level-up record of
\* gold-silver, both of generation 2, and the tutor record is selected
C26_Witness ==
    /\ lastMoves.op = "getMoves"
    /\ \E i \in 1 .. Len(movesIn.moves) :
           LET details == movesIn.moves[i].version_group_details
           IN  /\ Cardinality(C26_Latest(details)) = 2
               /\ details[1].version_group = "crystal"
               /\ details[2].version_group = "gold-silver"
               /\ MapGet(lastMoves.moveMap, movesIn.moves[i].move).method = "tutor"

(***************************************************************************)
(* C27: the loading indicator                                              *)
(***************************************************************************)
\* the call started last is still in flight
C27_LatestInFlight ==
    \E i \in 1 .. Len(calls) : calls[i].loadId = currentLoadId /\ calls[i].pc # "done"

\* C27: for any interleaving of overlapping showPokemon calls at most one
\* loading box exists; no earlier call removes the box of the call started
\* last while that call is in flight; and once every started call has
\* completed, with success or with an error, no loading box remains.
C27_OneLoadingBox ==
    /\ Cardinality(screenBoxes) <= 1
    /\ C27_LatestInFlight => screenBoxes = {currentLoadId}
    /\ (\A i \in 1 .. Len(calls) : calls[i].pc = "done") => screenBoxes = {}

\* two calls overlapped, the earlier one completed last as a stale call, and
\* no box is left
C27_Witness ==
    /\ Len(calls) >= 2
    /\ \A i \in 1 .. Len(calls) : calls[i].pc = "done"
    /\ calls[1].fetched = "ok"
    /\ calls[2].fetched = "failed"
    /\ sections["moves"] = Loaded(calls[1].name)
    /\ screenBoxes = {}

(***************************************************************************)
(* C28: reportPhaseStatus                                                  *)
(***************************************************************************)
\* C28: reportPhaseStatus(phase, work) tells the status callback 'loading'
\* before work starts and 'complete' after work settles, resolved or rejected:
\* exactly two invocations per call, 'loading' first; it returns the result of
\* work on success and raises the error of work on failure, and with no
\* callback set it still runs work and returns its result.
C28_LoadingThenComplete ==
    \A i \in 1 .. Len(phaseCalls) :
        LET call == phaseCalls[i]
        IN  /\ call.workRan /\ call.callbackAtStart # "none" =>
                   Len(call.log) >= 1 /\ call.log[1] = "loading"
            /\ (call.pc # "working" /\ call.callbackAtStart # "none") =>
                   call.log = <<"loading", "complete">>
            /\ call.pc # "working" =>
                   /\ call.workRan
                   /\ call.work \in WorkResults =>
                          call.pc = "resolved" /\ call.outcome = call.work
                   /\ call.work = "rejected" =>
                          call.pc = "rejected" /\ call.outcome = "work-error"

(***************************************************************************)
(* C29: placeholders and the caches                                        *)
(***************************************************************************)
\* C29: a placeholder produced for a failed fetch is never stored in a cache:
\* a failed getAbilityDetails returns the fallback record and leaves the
\* ability cache as it was, a failed urlToAscii returns the placeholder art,
\* neither cache ever holds a placeholder, and the next call for the same key
\* after a failed one is not answered from the cache.
C29_PlaceholderNeverCached ==
    /\ \A i \in 1 .. Len(abilityCache) :
           abilityCache[i].value # FallbackDetail(abilityCache[i].key)
    /\ \A i \in 1 .. Len(spriteCache) : spriteCache[i].value.kind # "placeholder"
    /\ AbilityCallFailed(lastAbilityDetails) =>
           /\ lastAbilityDetails.value = FallbackDetail(lastAbilityDetails.abilityName)
           /\ abilityCache = lastAbilityDetails.cacheBefore
           /\ ~MapHas(abilityCache, lastAbilityDetails.abilityName)
    /\ lastAbilityDetails.failedBefore => ~lastAbilityDetails.hit
    /\ \A j \in 1 .. Len(spriteCalls) :
           /\ spriteCalls[j].pc = "failed" =>
                  spriteCalls[j].result.kind = "placeholder"
           /\ spriteCalls[j].hit =>
                  /\ spriteCalls[j].result.kind = "art"
                  /\ \E i \in 1 .. Len(spriteCalls) :
                         /\ i # j
                         /\ spriteCalls[i].cacheKey = spriteCalls[j].cacheKey
                         /\ spriteCalls[i].pc = "done"
                         /\ ~spriteCalls[i].hit

\* a failed call of each kind was followed by a call for the same key, which
\* went upstream again and succeeded
C29_Witness ==
    /\ lastAbilityDetails.failedBefore
    /\ lastAbilityDetails.response.kind = "ability"
    /\ MapHas(abilityCache, lastAbilityDetails.abilityName)
    /\ \E j \in 1 .. Len(spriteCalls) :
           /\ spriteCalls[j].failedBefore
           /\ spriteCalls[j].pc = "done"
           /\ ~spriteCalls[j].hit
           /\ MapHas(spriteCache, spriteCalls[j].cacheKey)

(***************************************************************************)
(* C30: has, size and a get that misses only read                          *)
(***************************************************************************)
\* the keys of the Map in its order, least recently used first
KeyOrder(m) == [i \in 1 .. Len(m) |-> m[i].key]

\* after has, size or a get that misses, the Map and the order of the touches
\* are those of before; the order of the Map is always the order of the most
\* recent set or hitting get of its keys
C30_ReadsLeaveCache ==
    /\ lastCache.op \in {"has", "size"} =>
           cache = lastCache.pre /\ touchLog = lastCache.preLog
    /\ (lastCache.op = "get" /\ ~MapHas(lastCache.pre, lastCache.key)) =>
           /\ lastCache.ret = Undefined
           /\ cache = lastCache.pre
           /\ touchLog = lastCache.preLog
    /\ lastCache.op = "has" =>
           lastCache.ret = (IF MapHas(cache, lastCache.key) THEN "true" ELSE "false")
    /\ lastCache.op = "size" => lastCache.ret = ToString(Len(cache))
    /\ KeyOrder(cache) = SelectSeq(touchLog, LAMBDA k : MapHas(cache, k))

\* has has just found the least recently used key of a full cache
HasFoundOldest ==
    /\ lastCache.op = "has"
    /\ maxSize >= 1
    /\ Len(cache) = maxSize
    /\ cache[1].key = lastCache.key

\* a set of an absent key right after has found the least recently used key
\* of a full cache evicts that key
C30_HasThenEvicted ==
    (/\ HasFoundOldest
     /\ lastCache'.op = "set"
     /\ ~MapHas(cache, lastCache'.key))
        => (/\ ~MapHas(cache', lastCache.key)
            /\ MapKeys(cache') = (MapKeys(cache) \ {lastCache.key}) \cup {lastCache'.key})

\* C30: has(k) and reading size change neither the contents nor the recency
\* order of the cache: a key that is only queried with has is not promoted
\* and is still evicted as least recently used when its last get or set is
\* the oldest; a get on an absent key leaves contents and order unchanged.
C30_HasAndSizeOnlyRead ==
    [](C30_ReadsLeaveCache) /\ [][C30_HasThenEvicted]_vars

\* has has found the least recently used key of a full cache of two or more
\* keys, which was set before a key that is still present and stays first
C30_Witness ==
    /\ HasFoundOldest
    /\ maxSize >= 2
    /\ lastCache.ret = "true"
    /\ lastCache.key = OldestTouched(touchLog, MapKeys(cache))
====
